---- MODULE Spec2Model ----
(***************************************************************************)
(* A model of the glide daemon: the onRequest authentication hook, the     *)
(* route handler wrapper (dispatcher), the error taxonomy, the container   *)
(* route handlers and the command-execution adapter of DockerService.      *)
(*                                                                         *)
(* Strings the code inspects character by character (URLs, paths, exec     *)
(* output) are sequences of one-character strings.  Two control characters *)
(* are written as the tokens "ESC" (\x1B) and "NUL" (\x00).                *)
(***************************************************************************)
EXTENDS Integers, Sequences, FiniteSets, TLC

VARIABLES
    pc,            \* "idle" | "handler" | "rejected" | "done"
    request,       \* the request being served
    replies,       \* reply.status(..).send(..) calls made for the request, in order
    handlerRan,    \* TRUE once route.handler was invoked for the request
    outcome,       \* what route.handler returned or threw
    escaped,       \* TRUE when an exception left the wrapper's own catch block
    engineCalls,   \* container-engine calls issued for the request, in order
    execLog,       \* exec sessions run for the request: operation, path, stream, result
    lsOutput,      \* readDirectory: the output of the ls session
    lsFiles,       \* readDirectory: what it returns for lsOutput
    routeFiles,    \* startup: the route files under the routes directory
    routes,        \* startup: the routes array readRoutes fills
    startup,       \* startup: "init" | "built" | "listening"
    registered,    \* startup: the URLs app.route was called with
    routeParam,    \* binding: the declared type of the parameter being bound
    rawValue,      \* binding: requestParams[routeParam.name]
    bound,         \* binding: the value bound, or that binding threw
    store,         \* log store: the Redis list of each container, head first
    appended,      \* log store: the number of lines appended to each container
    logsReply,     \* log store: what getLogs returned, id "none" before it is called
    sockets,       \* relay: of each socket, whether it is connected, the state of
                   \*        its subscription, the listeners on its log stream
    emitted,       \* relay: the socket.emit("log", ..) calls of each socket, in order
    chunks,        \* relay: the number of chunks the container c1 wrote to its log
    produced,      \* relay: the chunks the container c1 wrote to its log, in order
    disk,          \* files: the content of each file of the container, or that it is absent
    lastWrite,     \* files: the last write, while nothing else was done to its path
    readBack,      \* files: what the last read returned
    apiPc,         \* servers API: "idle" | "matched" | "done"
    apiRequest,    \* servers API: the request being served
    apiReply       \* servers API: the response

\* the state of the request being served
httpVars == <<pc, request, replies, handlerRan, outcome, escaped, engineCalls, execLog>>

\* the state of a call of readDirectory
listingVars == <<lsOutput, lsFiles>>

\* the state of the startup of the server
startupVars == <<routeFiles, routes, startup, registered>>

\* the state of the binding of one path parameter
bindingVars == <<routeParam, rawValue, bound>>

\* the state of the log store
storeVars == <<store, appended, logsReply>>

\* the state of the live log relay
relayVars == <<sockets, emitted, chunks, produced>>

\* the state of the files of the container and of the last write and read
fsVars == <<disk, lastWrite, readBack>>

\* the state of the servers API
apiVars == <<apiPc, apiRequest, apiReply>>

\* the state that serving a request leaves alone
offRequestVars ==
    <<listingVars, startupVars, bindingVars, storeVars, relayVars, fsVars, apiVars>>

vars == <<httpVars, offRequestVars>>

----------------------------------------------------------------------------
(* Bounds of the model *)

\* exec output is a concatenation of at most MaxPieces pieces of OutputPieces
MaxPieces == 2

\* GET /containers finds at most MaxContainers containers
MaxContainers == 1

----------------------------------------------------------------------------
(* String literals of the source *)

HealthUrl == <<"/", "h", "e", "a", "l", "t", "h">>
LogsSuffix == <<"/", "l", "o", "g", "s">>
ContainersUrl == <<"/", "c", "o", "n", "t", "a", "i", "n", "e", "r", "s">>
FilesSeg == <<"/", "f", "i", "l", "e", "s">>
RestartSeg == <<"/", "r", "e", "s", "t", "a", "r", "t">>
StatusSeg == <<"/", "s", "t", "a", "t", "u", "s">>
CommandSeg == <<"/", "c", "o", "m", "m", "a", "n", "d">>
PathKey == <<"?", "p", "a", "t", "h", "=">>
DataPrefix == <<"/", "d", "a", "t", "a", "/">>
NoSuchFile == <<"N", "o", " ", "s", "u", "c", "h", " ", "f", "i", "l", "e", " ",
                "o", "r", " ", "d", "i", "r", "e", "c", "t", "o", "r", "y">>
BearerPrefix == <<"B", "e", "a", "r", "e", "r", " ">>
RconCli == <<"r", "c", "o", "n", "-", "c", "l", "i", " ">>

\* const publicRoutes = ["/logs"]
publicRoutes == {LogsSuffix}

\* env.SPIRE_TOKEN: the configured secret
SPIRE_TOKEN == <<"t", "k">>

----------------------------------------------------------------------------
(* String.prototype operations, on sequences of characters *)

startsWith(s, p) == Len(p) <= Len(s) /\ SubSeq(s, 1, Len(p)) = p

endsWith(s, p) == Len(p) <= Len(s) /\ SubSeq(s, Len(s) - Len(p) + 1, Len(s)) = p

includes(s, p) == \E i \in 1..(Len(s) - Len(p) + 1) : SubSeq(s, i, i + Len(p) - 1) = p

\* s.indexOf(ch), 0-based, -1 when absent
indexOf(s, ch) ==
    IF \E i \in 1..Len(s) : s[i] = ch
    THEN (CHOOSE i \in 1..Len(s) : s[i] = ch /\ \A j \in 1..(i - 1) : s[j] # ch) - 1
    ELSE -1

RECURSIVE KeepIndexes(_, _, _)
\* the characters of s at the positions i..Len(s) that keep(i) selects
KeepIndexes(s, keep, i) ==
    IF i > Len(s) THEN <<>>
    ELSE (IF keep[i] THEN <<s[i]>> ELSE <<>>) \o KeepIndexes(s, keep, i + 1)

\* s.replace(/\.{2,}/g, ""): every maximal run of two or more dots is removed
RemoveDotRuns(s) ==
    LET keep == [i \in 1..Len(s) |->
                    \/ s[i] # "."
                    \/ /\ (i = 1 \/ s[i - 1] # ".")
                       /\ (i = Len(s) \/ s[i + 1] # ".")]
    IN KeepIndexes(s, keep, 1)

RECURSIVE CollapseSlashes(_)
\* s.replace(/\/\//g, "/"): left to right, non-overlapping matches of "//"
CollapseSlashes(s) ==
    IF Len(s) < 2 THEN s
    ELSE IF s[1] = "/" /\ s[2] = "/"
         THEN <<"/">> \o CollapseSlashes(SubSeq(s, 3, Len(s)))
         ELSE <<s[1]>> \o CollapseSlashes(Tail(s))

----------------------------------------------------------------------------
(* Character classes of the regular expressions *)

Letters ==
    {"a", "b", "c", "d", "e", "f", "g", "h", "i", "j", "k", "l", "m", "n", "o", "p",
     "q", "r", "s", "t", "u", "v", "w", "x", "y", "z",
     "A", "B", "C", "D", "E", "F", "G", "H", "I", "J", "K", "L", "M", "N", "O", "P",
     "Q", "R", "S", "T", "U", "V", "W", "X", "Y", "Z"}

Digits == {"0", "1", "2", "3", "4", "5", "6", "7", "8", "9"}

Punctuation ==
    {" ", "!", "\"", "#", "$", "%", "&", "'", "(", ")", "*", "+", ",", "-", ".", "/",
     ":", ";", "<", "=", ">", "?", "@", "[", "\\", "]", "^", "_", "{", "|", "}",
     "~"}

\* [\x20-\x7E], less the backquote \x60, which no string of the model holds
Printable == Letters \cup Digits \cup Punctuation

\* what String.prototype.trim removes, among the characters of the model
Whitespace == {" ", "\n", "\t", "\r", "\f"}

RECURSIVE SelectChars(_, _)
\* the characters of s that are in keep, in order
SelectChars(s, keep) ==
    IF s = <<>> THEN <<>>
    ELSE (IF Head(s) \in keep THEN <<Head(s)>> ELSE <<>>) \o SelectChars(Tail(s), keep)

RECURSIVE DropChars(_, _)
\* s without the characters that are in drop
DropChars(s, drop) ==
    IF s = <<>> THEN <<>>
    ELSE (IF Head(s) \in drop THEN <<>> ELSE <<Head(s)>>) \o DropChars(Tail(s), drop)

\* s.replace(/[^\x20-\x7E\n]/g, "")
StripNonPrintable(s) == SelectChars(s, Printable \cup {"\n"})

\* s.replace(/[^\x20-\x7E]/g, "")
StripNonPrintableLine(s) == SelectChars(s, Printable)

\* the length of the match of /\x1B\[[0-9;]*[a-zA-Z]/ at the start of s, 0 if none
AnsiMatchLen(s) ==
    IF Len(s) >= 3 /\ s[1] = "ESC" /\ s[2] = "["
    THEN LET stops == {j \in 3..Len(s) : s[j] \notin Digits \cup {";"}}
         IN IF stops = {} THEN 0
            ELSE LET j == CHOOSE k \in stops : \A m \in stops : k <= m
                 IN IF s[j] \in Letters THEN j ELSE 0
    ELSE 0

RECURSIVE StripAnsi(_)
\* s.replace(/\x1B\[[0-9;]*[a-zA-Z]/g, "")
StripAnsi(s) ==
    IF s = <<>> THEN <<>>
    ELSE IF AnsiMatchLen(s) > 0
         THEN StripAnsi(SubSeq(s, AnsiMatchLen(s) + 1, Len(s)))
         ELSE <<Head(s)>> \o StripAnsi(Tail(s))

RECURSIVE trimStart(_)
trimStart(s) ==
    IF s # <<>> /\ Head(s) \in Whitespace THEN trimStart(Tail(s)) ELSE s

RECURSIVE trimEnd(_)
trimEnd(s) ==
    IF s # <<>> /\ s[Len(s)] \in Whitespace THEN trimEnd(SubSeq(s, 1, Len(s) - 1)) ELSE s

\* s.trim()
trim(s) == trimEnd(trimStart(s))

RECURSIVE split(_, _)
\* s.split(sep), for a one-character separator
split(s, sep) ==
    IF indexOf(s, sep) < 0 THEN <<s>>
    ELSE <<SubSeq(s, 1, indexOf(s, sep))>>
         \o split(SubSeq(s, indexOf(s, sep) + 2, Len(s)), sep)

----------------------------------------------------------------------------
(* JavaScript values that reach a response body.                           *)
(*   t     : typeof tag ("undefined", "null", "string", "boolean",         *)
(*           "object", "array")                                            *)
(*   s     : a literal of the source, or the name of an opaque object      *)
(*   c     : the characters of a computed string                           *)
(*   l     : the entries of a directory listing                            *)
(*   inner : what the value's own "details" property holds                 *)
(*           ("none": no such property)                                    *)
(***************************************************************************)

Undefined == [t |-> "undefined", s |-> "", c |-> <<>>, l |-> <<>>, inner |-> "none"]
Null == [t |-> "null", s |-> "", c |-> <<>>, l |-> <<>>, inner |-> "none"]
Lit(s) == [t |-> "string", s |-> s, c |-> <<>>, l |-> <<>>, inner |-> "none"]
Text(c) == [t |-> "string", s |-> "", c |-> c, l |-> <<>>, inner |-> "none"]
Bool(b) == [t |-> "boolean", s |-> IF b THEN "true" ELSE "false", c |-> <<>>,
            l |-> <<>>, inner |-> "none"]
Obj(s) == [t |-> "object", s |-> s, c |-> <<>>, l |-> <<>>, inner |-> "none"]
Listing(l) == [t |-> "array", s |-> "", c |-> <<>>, l |-> l, inner |-> "none"]
\* an object { details: <inner>, ... } named s
Wrapping(s, inner) == [t |-> "object", s |-> s, c |-> <<>>, l |-> <<>>, inner |-> inner]

\* an object { details: <d> } named s, d any value
WrappingValue(s, d) ==
    [t |-> "object", s |-> s, c |-> <<>>, l |-> <<>>, inner |-> "value", details |-> d]

\* JavaScript truthiness
Truthy(v) ==
    CASE v.t \in {"undefined", "null"} -> FALSE
      [] v.t = "boolean" -> v.s = "true"
      [] v.t = "string" -> v.s # "" \/ v.c # <<>>
      [] OTHER -> TRUE

\* v.details, for a value v that is not undefined or null
DetailsOf(v) ==
    CASE v.inner = "none" -> Undefined
      [] v.inner = "value" -> v.details
      [] v.inner = "undefined" -> Undefined
      [] v.inner = "null" -> Null
      [] OTHER -> Obj(v.inner)

----------------------------------------------------------------------------
(* types/Http.ts *)

\* the object a handler returns or throws, or a primitive it throws:
\* cls is its class ("HttpResponse", "HttpError", "Error") or, for a value that
\* is no object, its type ("undefined", "null", "string")
JsThrowable(cls, status, message, details, body) ==
    [cls |-> cls, status |-> status, message |-> message, details |-> details,
     body |-> body]

HttpResponse(status, body) ==
    JsThrowable("HttpResponse", status, Undefined, Undefined, body)

HttpError(status, message, details) ==
    JsThrowable("HttpError", status, message, details, Undefined)

\* class HttpError extends Error { constructor(..) { super("HttpError"); .. } }:
\* "HttpError" is passed as the message, which the constructor then overwrites;
\* name is never set, so error.name is the one Error.prototype provides
HttpErrorName == "Error"

Ok(body) == HttpResponse(200, body)
Created(body) == HttpResponse(201, body)
Accepted(body) == HttpResponse(202, body)
NoContent(body) == HttpResponse(204, body)
BadRequest(message, details) == HttpError(400, message, details)
Unauthorized(message, details) == HttpError(401, message, details)
Forbidden(message, details) == HttpError(403, message, details)
NotFound(message, details) == HttpError(404, message, details)
Conflict(message, details) == HttpError(409, message, details)
InternalServerError(message, details) == HttpError(500, message, details)
FromCode(status, message, details) == HttpError(status, message, details)

\* new Error(message), or a TypeError the runtime raises
ErrorObject(message) == JsThrowable("Error", 0, Lit(message), Undefined, Undefined)

\* a thrown value that is no object
Primitive(type) == JsThrowable(type, 0, Undefined, Undefined, Undefined)

\* the error kinds of the taxonomy and the status bound to each
ErrorKinds == {"BadRequest", "Unauthorized", "Forbidden", "NotFound", "Conflict",
               "InternalServerError"}

StatusOfKind(k) ==
    CASE k = "BadRequest" -> 400
      [] k = "Unauthorized" -> 401
      [] k = "Forbidden" -> 403
      [] k = "NotFound" -> 404
      [] k = "Conflict" -> 409
      [] k = "InternalServerError" -> 500

\* Responses[k](message, details)
Raise(k, message, details) ==
    CASE k = "BadRequest" -> BadRequest(message, details)
      [] k = "Unauthorized" -> Unauthorized(message, details)
      [] k = "Forbidden" -> Forbidden(message, details)
      [] k = "NotFound" -> NotFound(message, details)
      [] k = "Conflict" -> Conflict(message, details)
      [] k = "InternalServerError" -> InternalServerError(message, details)

\* what a handler did: returned a value or threw one
Returned(v) == [kind |-> "return", val |-> v]
Threw(v) == [kind |-> "throw", val |-> v]
NoOutcome == [kind |-> "none", val |-> Primitive("undefined")]

----------------------------------------------------------------------------
(* reply.status(status).send(payload) *)

\* JSON.stringify omits the properties whose value is undefined
JsonBody(payload) ==
    [f \in {g \in DOMAIN payload : payload[g].t # "undefined"} |-> payload[f]]

Reply(status, payload) == [status |-> status, body |-> JsonBody(payload)]

----------------------------------------------------------------------------
(* utils/index.ts: the onRequest hook *)

\* request.url === "/health" || publicRoutes.some((route) => request.url.endsWith(route))
IsPublicUrl(url) == url = HealthUrl \/ \E route \in publicRoutes : endsWith(url, route)

\* token === `Bearer ${env.SPIRE_TOKEN}`
TokenMatches(token) == token = Text(BearerPrefix \o SPIRE_TOKEN)

\* reply.status(401).send({ error: "Unauthorized", success: false })
UnauthorizedReply ==
    Reply(401, [error |-> Lit("Unauthorized"), success |-> Bool(FALSE)])

\* TRUE when the hook calls done(), FALSE when it replies 401
HookPasses(req) == IsPublicUrl(req.url) \/ TokenMatches(req.authorization)

----------------------------------------------------------------------------
(* utils/index.ts: the handler wrapper app.route registers for every route *)

\* details: error.details?.details ? error.details.details
\*                                 : error.details ? error.details : undefined
EnvelopeDetails(details) ==
    IF details.t \notin {"undefined", "null"} /\ Truthy(DetailsOf(details))
    THEN DetailsOf(details)
    ELSE IF Truthy(details) THEN details ELSE Undefined

\* ReplyToReturn with the status of the outcome ignored
ReplyToReturn_Always200(response) ==
    IF response.cls = "HttpResponse"
    THEN Reply(200, [success |-> Bool(TRUE), data |-> response.body])
    ELSE Reply(500, [error |-> Lit("Internal Server Error"), success |-> Bool(FALSE),
                     detailed |-> IF response.cls = "undefined" THEN Undefined
                                  ELSE Obj(response.cls)])

\* if (response instanceof HttpResponse) ... else ...
ReplyToReturn(response) ==
    IF response.cls = "HttpResponse"
    THEN Reply(response.status, [success |-> Bool(TRUE), data |-> response.body])
    ELSE Reply(500, [error |-> Lit("Internal Server Error"), success |-> Bool(FALSE),
                     detailed |-> IF response.cls = "undefined" THEN Undefined
                                  ELSE Obj(response.cls)])

\* if (error instanceof HttpError) return reply.status(error.status).send({...})
ReplyToHttpError(error) ==
    Reply(error.status, [error |-> Lit(HttpErrorName), message |-> error.message,
                         success |-> Bool(FALSE),
                         details |-> EnvelopeDetails(error.details)])

\* return reply.status(500).send({ error: .., success: false, message: error.message })
ReplyToUnknown(error) ==
    Reply(500, [error |-> Lit("Internal Server Error"), success |-> Bool(FALSE),
                message |-> error.message])

\* reading error.message throws a TypeError when error is undefined or null
MessageReadThrows(error) == error.cls \in {"undefined", "null"}

\* the replies the wrapper sends for a handler outcome, and whether an exception
\* left its catch block
RouteWrapper(o) ==
    CASE o.kind = "return" ->
           [replies |-> <<ReplyToReturn(o.val)>>, escaped |-> FALSE]
      [] o.kind = "throw" /\ o.val.cls = "HttpError" ->
           [replies |-> <<ReplyToHttpError(o.val)>>, escaped |-> FALSE]
      [] o.kind = "throw" /\ o.val.cls # "HttpError" /\ MessageReadThrows(o.val) ->
           [replies |-> <<>>, escaped |-> TRUE]
      [] OTHER ->
           [replies |-> <<ReplyToUnknown(o.val)>>, escaped |-> FALSE]

----------------------------------------------------------------------------
(* Requests *)

\* params.id values
Ids == {<<"c", "1">>, <<"l", "o", "g", "s">>}

\* values of the Authorization header
AuthHeaders ==
    {Undefined,
     Text(BearerPrefix \o SPIRE_TOKEN),
     Text(BearerPrefix \o <<"x">>),
     Text(SPIRE_TOKEN),
     Text(BearerPrefix \o SPIRE_TOKEN \o <<" ">>)}

\* values of the "path" query parameter: none, or ?path=<characters>
QueryPaths ==
    {<<>>,
     <<"a">>,
     <<"/", "d", "a", "t", "a", "/", "a">>,
     <<"/", "d", "a", "t", "a", "/", "/", "a">>,
     <<".", ".", "/", "a">>,
     <<"/", "d", "a", "t", "a", "/", ".", ".", "/", "a">>,
     <<".", ".", ".", "/", ".", "a">>,
     <<"/", "l", "o", "g", "s">>}

FileRoutes == {"filesGet", "filesPut", "filesDelete", "filesDeleteRaw", "filesPost",
               "filesPostRaw"}

Routes == {"health", "custom", "list", "create", "remove", "restart", "status",
           "command"}
              \cup FileRoutes

\* the routes of the allow-list
AllowListed == {"health", "logs"}

Queries(route) ==
    IF route \in FileRoutes
    THEN {Undefined} \cup {Text(p) : p \in QueryPaths}
    ELSE {Undefined, Text(LogsSuffix)}

\* the path of the route's url, with :id bound
UrlPath(route, id) ==
    CASE route = "health" -> HealthUrl
      [] route = "custom" -> <<"/", "x">>
      [] route \in {"list", "create"} -> ContainersUrl
      [] route = "remove" -> ContainersUrl \o <<"/">> \o id
      [] route = "restart" -> ContainersUrl \o <<"/">> \o id \o RestartSeg
      [] route = "status" -> ContainersUrl \o <<"/">> \o id \o StatusSeg
      [] route = "command" -> ContainersUrl \o <<"/">> \o id \o CommandSeg
      [] route \in FileRoutes -> ContainersUrl \o <<"/">> \o id \o FilesSeg

\* request.url: the path and the raw query string.  The model's query values hold
\* no character that needs percent-encoding, so request.query.path is the raw text.
UrlOf(route, id, query) ==
    UrlPath(route, id) \o (IF query.t = "undefined" THEN <<>> ELSE PathKey \o query.c)

\* the request body { command: <c> }
CommandBody(c) == [t |-> "object", s |-> "command", c |-> c, l |-> <<>>, inner |-> "none"]

\* expectedBody.safeParse(body).success, for expectedBody = z.object({ command: z.string() })
ValidCommandBody(body) == body.t = "object" /\ body.s = "command"

\* a JSON value held by a property of the body of POST /containers
JUndefined == [t |-> "undefined", c |-> <<>>, n |-> 0]
JString(c) == [t |-> "string", c |-> c, n |-> 0]
JNumber(n) == [t |-> "number", c |-> <<>>, n |-> n]

\* the request body { name, version, type, port, memory }
ServerBody(name, version, type, port, memory) ==
    [t |-> "object", s |-> "server", c |-> <<>>, l |-> <<>>, inner |-> "none",
     props |-> [name |-> name, version |-> version, type |-> type, port |-> port,
                memory |-> memory]]

Paper == <<"P", "A", "P", "E", "R">>
Ftba == <<"F", "T", "B", "A">>

NameValues ==
    {JUndefined, JString(<<"a", "b">>), JString(<<"a", "b", "c">>),
     JString([i \in 1..33 |-> "a"]), JNumber(7)}
VersionValues == {JUndefined, JString(<<>>), JString(<<"1">>)}
TypeValues == {JUndefined, JString(Paper), JString(Ftba)}
PortValues == {JUndefined, JNumber(25565), JNumber(80), JString(<<"8", "0">>)}
MemoryValues == {JUndefined, JNumber(2)}

ServerBodies ==
    {ServerBody(name, version, type, port, memory) :
        name \in NameValues, version \in VersionValues, type \in TypeValues,
        port \in PortValues, memory \in MemoryValues}

Bodies(route) ==
    CASE route = "command" -> {Undefined, Obj("empty"), CommandBody(<<"l", "s">>)}
      [] route = "create" -> {Undefined, Lit("text")} \cup ServerBodies
      [] OTHER -> {Undefined}

NoRequest ==
    [route |-> "none", id |-> <<>>, query |-> Undefined, url |-> <<>>,
     authorization |-> Undefined, body |-> Undefined]

TypeOK ==
    /\ pc \in {"idle", "handler", "rejected", "done"}
    /\ handlerRan \in BOOLEAN
    /\ escaped \in BOOLEAN

Init ==
    /\ pc = "idle"
    /\ request = NoRequest
    /\ replies = <<>>
    /\ handlerRan = FALSE
    /\ outcome = NoOutcome
    /\ escaped = FALSE
    /\ engineCalls = <<>>
    /\ execLog = <<>>
    /\ lsOutput = <<>>
    /\ lsFiles = Undefined
    /\ routeFiles = {}
    /\ routes = <<>>
    /\ startup = "init"
    /\ registered = {}
    /\ routeParam = "none"
    /\ rawValue = Undefined
    /\ bound = [state |-> "unbound"]
    /\ store = [c \in {"c1", "c2"} |-> <<>>]
    /\ appended = [c \in {"c1", "c2"} |-> 0]
    /\ logsReply = [id |-> "none", logs |-> <<>>]
    /\ sockets = [k \in {"s1", "s2"} |->
                     [connected |-> TRUE, subscription |-> "none", listeners |-> {},
                      onDisconnect |-> FALSE, first |-> 0, next |-> 0]]
    /\ emitted = [k \in {"s1", "s2"} |-> <<>>]
    /\ chunks = 0
    /\ produced = <<>>
    /\ disk = [p \in {<<"/", "d", "a", "t", "a", "/", "a">>,
                      <<"/", "d", "a", "t", "a", "/", "b">>} |-> Undefined]
    /\ lastWrite = [path |-> <<>>, data |-> <<>>]
    /\ readBack = [path |-> <<>>, kind |-> "none", val |-> Undefined]
    /\ apiPc = "idle"
    /\ apiRequest = [method |-> "none", path |-> "none", id |-> <<>>, body |-> Undefined]
    /\ apiReply = [status |-> 0, type |-> "none", stat |-> "none", success |-> "none",
                   data |-> "none"]

\* a request arrives, is routed, and the onRequest hook runs
OnRequest ==
    /\ pc = "idle"
    /\ \E route \in Routes, id \in Ids, auth \in AuthHeaders :
         \E query \in Queries(route), body \in Bodies(route) :
            LET req == [route |-> route, id |-> id, query |-> query,
                        url |-> UrlOf(route, id, query), authorization |-> auth,
                        body |-> body]
            IN /\ request' = req
               /\ IF HookPasses(req)
                  THEN pc' = "handler" /\ replies' = <<>>
                  ELSE pc' = "rejected" /\ replies' = <<UnauthorizedReply>>
    /\ handlerRan' = FALSE
    /\ outcome' = NoOutcome
    /\ escaped' = FALSE
    /\ engineCalls' = <<>>
    /\ execLog' = <<>>
    /\ UNCHANGED offRequestVars

\* the reply was sent (or the error handed to the framework): the request and
\* everything bound to it is dropped, and the server waits for the next one
RequestComplete ==
    /\ pc \in {"rejected", "done"}
    /\ pc' = "idle"
    /\ request' = NoRequest
    /\ replies' = <<>>
    /\ handlerRan' = FALSE
    /\ outcome' = NoOutcome
    /\ escaped' = FALSE
    /\ engineCalls' = <<>>
    /\ execLog' = <<>>
    /\ UNCHANGED offRequestVars

\* the hook called done() and the request is routed to this route
Routed(route) == pc = "handler" /\ request.route = route

\* the wrapper invokes route.handler, which ends with outcome o after issuing the
\* engine calls and exec sessions given, and maps the outcome to the reply
Serve(route, o, calls, execs) ==
    /\ Routed(route)
    /\ handlerRan' = TRUE
    /\ outcome' = o
    /\ engineCalls' = calls
    /\ execLog' = execs
    /\ replies' = RouteWrapper(o).replies
    /\ escaped' = RouteWrapper(o).escaped
    /\ pc' = "done"
    /\ UNCHANGED <<request, offRequestVars>>

----------------------------------------------------------------------------
(* A route file whose handler is any function of the Handler type *)

DetailValues == {Undefined, Null, Obj("issues"), Wrapping("wrapper", "issues")}

CustomOutcomes ==
    {Returned(HttpResponse(st, b)) : st \in {200, 201, 202, 204},
                                     b \in {Undefined, Obj("payload"), Lit("text")}}
    \cup {Returned(Primitive("undefined"))}
    \cup {Returned(Raise(k, Lit("returned"), Undefined)) : k \in ErrorKinds}
    \cup {Threw(Raise(k, Lit("raised"), d)) : k \in ErrorKinds, d \in DetailValues}
    \cup {Threw(ErrorObject("boom"))}
    \cup {Threw(Primitive(p)) : p \in {"undefined", "null", "string"}}

CustomHandler ==
    /\ Routed("custom")
    /\ \E o \in CustomOutcomes : Serve("custom", o, <<>>, <<>>)

\* the health route: process and system statistics
HealthHandler ==
    /\ Routed("health")
    /\ Serve("health", Returned(Ok(Obj("stats"))), <<>>, <<>>)

----------------------------------------------------------------------------
(* The container engine (dockerode), as the handlers see it: a call resolves, or *)
(* rejects with an error.  An error built from an HTTP response carries          *)
(* statusCode and json (with or without a message); a transport error carries    *)
(* neither (statusCode 0 stands for undefined).                                  *)

EngineOk == [ok |-> TRUE, statusCode |-> 0, json |-> "none", running |-> FALSE]

EngineErrors ==
    {[ok |-> FALSE, statusCode |-> st, json |-> j, running |-> FALSE] :
        st \in {404, 409, 500}, j \in {"message", "nomessage"}}
    \cup {[ok |-> FALSE, statusCode |-> 0, json |-> "undefined", running |-> FALSE]}

EngineResults == {EngineOk} \cup EngineErrors

\* container.inspect(): data.State.Running is part of what it resolves to
InspectResults == {[EngineOk EXCEPT !.running = r] : r \in BOOLEAN} \cup EngineErrors

Call(name, result) ==
    [call |-> name, ok |-> result.ok, statusCode |-> result.statusCode,
     running |-> result.ok /\ result.running]

\* an engine error that reaches the wrapper unhandled: an Error with a message
EngineThrowable(e) == ErrorObject("engine error")

\* catch (e) { ...; return Responses.FromCode(error.statusCode, error.json.message || "") }
\* error.json.message throws a TypeError when the error has no json
CaughtAndReturned(e) ==
    IF e.json = "undefined"
    THEN Threw(ErrorObject("TypeError"))
    ELSE Returned(FromCode(e.statusCode,
                           IF e.json = "message" THEN Lit("engine message") ELSE Lit(""),
                           Undefined))

\* catch (e) { ...; return Responses.FromCode(error.statusCode, error.json?.message || "") }
CaughtAndReturnedOptional(e) ==
    Returned(FromCode(e.statusCode,
                      IF e.json = "message" THEN Lit("engine message") ELSE Lit(""),
                      Undefined))

\* DockerService.getServerStatus: inspect, then stats; a 404 from either yields
\* null, any other error is rethrown
getServerStatus(inspect, stats) ==
    LET failed == IF ~inspect.ok THEN inspect ELSE stats
        calls == IF ~inspect.ok THEN <<Call("inspect", inspect)>>
                 ELSE <<Call("inspect", inspect), Call("stats", stats)>>
    IN IF inspect.ok /\ stats.ok
       THEN [kind |-> "return", val |-> Obj("status"), running |-> inspect.running,
             err |-> EngineOk, calls |-> calls]
       ELSE IF failed.statusCode = 404
            THEN [kind |-> "return", val |-> Null, running |-> FALSE,
                  err |-> EngineOk, calls |-> calls]
            ELSE [kind |-> "throw", val |-> Undefined, running |-> FALSE,
                  err |-> failed, calls |-> calls]

\* POST /containers/:id/restart
RestartHandler ==
    /\ Routed("restart")
    /\ \E r \in EngineResults :
           Serve("restart",
                 IF r.ok THEN Returned(Ok(Obj("message"))) ELSE CaughtAndReturned(r),
                 <<Call("restart", r)>>, <<>>)

\* GET /containers/:id/status
StatusHandler ==
    /\ Routed("status")
    /\ \E inspect \in InspectResults, stats \in EngineResults :
           LET st == getServerStatus(inspect, stats)
           IN Serve("status",
                    IF st.kind = "return" THEN Returned(Ok(st.val))
                    ELSE CaughtAndReturned(st.err),
                    st.calls, <<>>)

\* RemoveRun with the rejection of the stop call swallowed
RemoveRun_IgnoresStopFailure(inspect, stats, stop, remove) ==
    LET st == getServerStatus(inspect, stats)
        stopCalls == IF st.running THEN <<Call("stop", stop)>> ELSE <<>>
    IN IF st.kind = "throw"
       THEN [o |-> CaughtAndReturned(st.err), calls |-> st.calls]
       ELSE [o |-> IF remove.ok THEN Returned(Ok(Obj("message")))
                   ELSE CaughtAndReturned(remove),
             calls |-> st.calls \o stopCalls \o <<Call("remove", remove)>>]

\* the outcome and the engine calls of DELETE /containers/:id
RemoveRun(inspect, stats, stop, remove) ==
    LET st == getServerStatus(inspect, stats)
        stopCalls == IF st.running THEN <<Call("stop", stop)>> ELSE <<>>
    IN IF st.kind = "throw"
       THEN [o |-> CaughtAndReturned(st.err), calls |-> st.calls]
       ELSE IF st.running /\ ~stop.ok
            THEN [o |-> CaughtAndReturned(stop), calls |-> st.calls \o stopCalls]
            ELSE [o |-> IF remove.ok THEN Returned(Ok(Obj("message")))
                        ELSE CaughtAndReturned(remove),
                  calls |-> st.calls \o stopCalls \o <<Call("remove", remove)>>]

\* DELETE /containers/:id
RemoveHandler ==
    /\ Routed("remove")
    /\ \E inspect \in InspectResults, stats \in EngineResults,
          stop \in EngineResults, remove \in EngineResults :
           LET run == RemoveRun(inspect, stats, stop, remove)
           IN Serve("remove", run.o, run.calls, <<>>)

\* GET /containers: listContainers, then Promise.all of one inspect per container;
\* the first rejection is the one the handler catches
ListHandler ==
    /\ Routed("list")
    /\ \E list \in EngineResults, n \in 0..MaxContainers :
           \E inspects \in [1..n -> EngineResults] :
               LET calls == <<Call("listContainers", list)>>
                            \o (IF list.ok THEN [i \in 1..n |-> Call("inspect", inspects[i])]
                                ELSE <<>>)
                   failing == {i \in 1..n : ~inspects[i].ok}
               IN IF ~list.ok
                  THEN Serve("list", CaughtAndReturnedOptional(list), calls, <<>>)
                  ELSE IF failing = {}
                       THEN Serve("list", Returned(Ok(Obj("servers"))), calls, <<>>)
                       ELSE \E i \in failing :
                               Serve("list", CaughtAndReturnedOptional(inspects[i]),
                                     calls, <<>>)

----------------------------------------------------------------------------
(* The exec session of the container engine: the aggregated output of the stream *)
(* (the chunks of the "data" events, concatenated until "end") and the exit code  *)
(* of the command.                                                                *)
(*                                                                                *)
(* Each operation registers stream.on("exit", (code) => { if (code !== 0) throw   *)
(* .. }).  The stream exec.start resolves to is a Duplex stream, which emits      *)
(* "data", "end", "error" and "close" but never "exit" (an event of child         *)
(* processes), so the listener never runs: the exit code does not reach the       *)
(* operation.  The operations below therefore read stream.output only.            *)

OutputPieces ==
    {NoSuchFile,
     <<"a">>,
     <<"/">>,
     <<"\n">>,
     <<"ESC", "[", "0", "m">>,
     <<"NUL">>,
     <<"/", "d", "a", "t", "a", "/", "a">>}

RECURSIVE OutputsUpTo(_)
OutputsUpTo(n) ==
    IF n = 0 THEN {<<>>}
    ELSE OutputsUpTo(n - 1) \cup {o \o p : o \in OutputsUpTo(n - 1), p \in OutputPieces}

Outputs == OutputsUpTo(MaxPieces)

ExitCodes == {0, 1}

ExecStreams == [output : Outputs, exitCode : ExitCodes]

ExecReturn(v) == [kind |-> "return", val |-> v, err |-> Primitive("undefined")]
ExecThrow(e) == [kind |-> "throw", val |-> Undefined, err |-> e]

\* if (output.includes("No such file or directory")) throw Responses.NotFound(..)
NotFoundError == NotFound(Lit("No such file or directory"), Undefined)

\* deleteFile with the not-found text looked for only after a failed command
deleteFile_OnlyOnFailure(stream) ==
    IF stream.exitCode # 0 /\ includes(stream.output, NoSuchFile)
    THEN ExecThrow(NotFoundError)
    ELSE ExecReturn(Text(stream.output))

\* DockerService.deleteFile
deleteFile(stream) ==
    IF includes(stream.output, NoSuchFile) THEN ExecThrow(NotFoundError)
    ELSE ExecReturn(Text(stream.output))

\* DockerService.createFile
createFile(stream) ==
    IF includes(stream.output, NoSuchFile) THEN ExecThrow(NotFoundError)
    ELSE ExecReturn(Text(stream.output))

\* DockerService.writeFile is called by the PUT route and is not part of the
\* source at hand: it runs the write command and classifies the session as the
\* other file operations do
writeFile(stream) ==
    IF includes(stream.output, NoSuchFile) THEN ExecThrow(NotFoundError)
    ELSE IF stream.exitCode # 0
         THEN ExecThrow(InternalServerError(Lit("write failed"), Undefined))
         ELSE ExecReturn(Undefined)

\* DockerService.readFile: output.trim().replace(/<U+FFFD>/g, "")
\*                               .replace(/[^\x20-\x7E\n]/g, "")
readFile(stream) ==
    IF includes(stream.output, NoSuchFile) THEN ExecThrow(NotFoundError)
    ELSE ExecReturn(Text(StripNonPrintable(DropChars(trim(stream.output),
                                                          {"FFFD"}))))

\* the control characters executeCommand removes one by one:
\* \u0000 \u0002 \u0001 \u001e \f \u0011
CommandStripped == {"NUL", "STX", "SOH", "RS", "\f", "DC1"}

\* DockerService.executeCommand
executeCommand(stream) ==
    IF includes(stream.output, NoSuchFile) THEN ExecThrow(NotFoundError)
    ELSE ExecReturn(Text(DropChars(StripAnsi(stream.output), CommandStripped)))

----------------------------------------------------------------------------
(* DockerService.readDirectory *)

\* the collation order of localeCompare for the characters of the model, upper
\* and lower case of a letter at the same place (sensitivity: "base")
CollationOrder ==
    <<" ", "_", "-", ",", ";", ":", "!", "?", ".", "'", "\"", "(", ")", "[", "]",
      "{", "}", "@", "*", "/", "\\", "&", "#", "%", "^", "+", "<", "=", ">", "|",
      "~", "$", "0", "1", "2", "3", "4", "5", "6", "7", "8", "9",
      "a", "b", "c", "d", "e", "f", "g", "h", "i", "j", "k", "l", "m", "n", "o", "p",
      "q", "r", "s", "t", "u", "v", "w", "x", "y", "z">>

UpperCase == <<"A", "B", "C", "D", "E", "F", "G", "H", "I", "J", "K", "L", "M", "N",
               "O", "P", "Q", "R", "S", "T", "U", "V", "W", "X", "Y", "Z">>

\* the place of a character in the collation order
CollationRank(ch) ==
    IF \E i \in 1..26 : UpperCase[i] = ch
    THEN Len(CollationOrder) - 26 + (CHOOSE i \in 1..26 : UpperCase[i] = ch)
    ELSE CHOOSE i \in 1..Len(CollationOrder) : CollationOrder[i] = ch

RECURSIVE localeCompare(_, _)
\* a.localeCompare(b, undefined, { sensitivity: "base" }): -1, 0 or 1
localeCompare(a, b) ==
    IF a = <<>> /\ b = <<>> THEN 0
    ELSE IF a = <<>> THEN -1
    ELSE IF b = <<>> THEN 1
    ELSE IF CollationRank(Head(a)) < CollationRank(Head(b)) THEN -1
    ELSE IF CollationRank(Head(a)) > CollationRank(Head(b)) THEN 1
    ELSE localeCompare(Tail(a), Tail(b))

\* the comparator of the sort: directories first, then by name
CompareEntries(a, b) ==
    IF a.isDirectory /\ ~b.isDirectory THEN -1
    ELSE IF ~a.isDirectory /\ b.isDirectory THEN 1
    ELSE localeCompare(a.name, b.name)

RECURSIVE InsertEntry(_, _)
\* e placed in the sorted sequence, after the entries that do not sort after it
InsertEntry(sorted, e) ==
    IF sorted = <<>> THEN <<e>>
    ELSE IF CompareEntries(e, Head(sorted)) < 0 THEN <<e>> \o sorted
         ELSE <<Head(sorted)>> \o InsertEntry(Tail(sorted), e)

RECURSIVE SortEntries(_)
\* Array.prototype.sort with CompareEntries (a stable sort)
SortEntries(entries) ==
    IF entries = <<>> THEN <<>>
    ELSE InsertEntry(SortEntries(SubSeq(entries, 1, Len(entries) - 1)),
                     entries[Len(entries)])

\* item => { cleaned = item.replace(/[^\x20-\x7E\n]/g, "");
\*           cleaned = cleaned.replace(/\x1B\[[0-9;]*[a-zA-Z]/g, "");
\*           return cleaned.trim(); }
CleanLine(item) == trim(StripAnsi(StripNonPrintable(item)))

\* item => ({ name: cleanName, isDirectory })
ToEntry(item) ==
    [name |-> StripNonPrintableLine(IF endsWith(item, <<"/">>)
                                    THEN SubSeq(item, 1, Len(item) - 1) ELSE item),
     isDirectory |-> endsWith(item, <<"/">>)]

RECURSIVE ParseLines(_)
\* .map(clean).filter(Boolean).filter(not "./", not "../").map(entry)
ParseLines(lines) ==
    IF lines = <<>> THEN <<>>
    ELSE LET item == CleanLine(Head(lines))
         IN (IF item = <<>> \/ item = <<".", "/">> \/ item = <<".", ".", "/">>
             THEN <<>> ELSE <<ToEntry(item)>>) \o ParseLines(Tail(lines))

\* the files array readDirectory builds from the output
ParseListing(output) == SortEntries(ParseLines(split(output, "\n")))

\* files.find((file) => file.name.includes("No such file or directory"))
ListingNotFound(files) == \E i \in 1..Len(files) : includes(files[i].name, NoSuchFile)

\* DockerService.readDirectory: null when an entry holds the not-found text
readDirectory(stream) ==
    IF ListingNotFound(ParseListing(stream.output)) THEN ExecReturn(Null)
    ELSE ExecReturn(Listing(ParseListing(stream.output)))

\* DockerService.listFiles: if (!output) throw Responses.NotFound(..)
listFiles(stream) ==
    IF readDirectory(stream).kind = "return" /\ readDirectory(stream).val.t = "null"
    THEN ExecThrow(NotFoundError)
    ELSE readDirectory(stream)

----------------------------------------------------------------------------
(* The file routes and the command route *)

\* utils/index.ts: PathSanitizer
PathSanitizer(path) == IF includes(path, <<".", ".">>) THEN RemoveDotRuns(path) ELSE path

\* the routes whose handler passes the query path through PathSanitizer first
SanitizingRoutes == {"filesPut", "filesDelete", "filesPost"}

\* the routes whose handler collapses "//" in the path
CollapsingRoutes == {"filesGet", "filesPut"}

\* PathSanitizer(undefined) throws a TypeError: undefined has no includes
PathThrows(route, query) == route \in SanitizingRoutes /\ query.t = "undefined"

\* queryParams.path after the handler prepared it: sanitized (on the sanitizing
\* routes), "/data/" when empty or missing, prefixed with "/data/" when it does not
\* start with it, and with "//" collapsed (on the collapsing routes)
FilePath(route, query) ==
    LET given == IF query.t = "undefined" THEN <<>> ELSE query.c
        clean == IF route \in SanitizingRoutes THEN PathSanitizer(given) ELSE given
        filled == IF clean = <<>> THEN DataPrefix ELSE clean
        rooted == IF startsWith(filled, DataPrefix) THEN filled ELSE DataPrefix \o filled
    IN IF route \in CollapsingRoutes THEN CollapseSlashes(rooted) ELSE rooted

\* an adapter call inside a handler that does not catch: a rejection propagates,
\* a result r is answered with Responses.Ok(data)
AdapterOutcome(r, data) ==
    IF r.kind = "throw" THEN Threw(r.err) ELSE Returned(Ok(data))

\* one exec session of the request: the operation, the path or command handed to
\* the adapter, the stream the engine produced and what the operation made of it
ExecEntry(op, arg, stream, r) ==
    [op |-> op, arg |-> arg, stream |-> stream, kind |-> r.kind, val |-> r.val,
     status |-> IF r.kind = "throw" THEN r.err.status ELSE 0]

\* a handler that throws before it reaches the adapter
PathTypeError(route) == Serve(route, Threw(ErrorObject("TypeError")), <<>>, <<>>)

\* DELETE /containers/:id/files, with and without PathSanitizer
DeleteFileHandler ==
    /\ pc = "handler"
    /\ request.route \in {"filesDelete", "filesDeleteRaw"}
    /\ IF PathThrows(request.route, request.query) THEN PathTypeError(request.route)
       ELSE \E stream \in ExecStreams :
               LET r == deleteFile(stream)
               IN Serve(request.route, AdapterOutcome(r, r.val), <<>>,
                        <<ExecEntry("delete", FilePath(request.route, request.query),
                                    stream, r)>>)

\* POST /containers/:id/files, with and without PathSanitizer
CreateFileHandler ==
    /\ pc = "handler"
    /\ request.route \in {"filesPost", "filesPostRaw"}
    /\ IF PathThrows(request.route, request.query) THEN PathTypeError(request.route)
       ELSE \E stream \in ExecStreams :
               LET r == createFile(stream)
               IN Serve(request.route, AdapterOutcome(r, r.val), <<>>,
                        <<ExecEntry("create", FilePath(request.route, request.query),
                                    stream, r)>>)

\* PUT /containers/:id/files
WriteFileHandler ==
    /\ Routed("filesPut")
    /\ IF PathThrows("filesPut", request.query) THEN PathTypeError("filesPut")
       ELSE \E stream \in ExecStreams :
               LET r == writeFile(stream)
               IN Serve("filesPut", AdapterOutcome(r, Obj("message")), <<>>,
                        <<ExecEntry("write", FilePath("filesPut", request.query), stream, r)>>)

\* files.find((file) => file.name === path)
FindByName(files, path) ==
    IF \E i \in 1..Len(files) : files[i].name = path
    THEN <<files[CHOOSE i \in 1..Len(files) :
                    files[i].name = path /\ \A j \in 1..(i - 1) : files[j].name # path]>>
    ELSE <<>>

\* GET /containers/:id/files: the listing, or the content when the listing names
\* the path itself as a file
GetFilesHandler ==
    /\ Routed("filesGet")
    /\ \E stream \in ExecStreams :
           LET path == FilePath("filesGet", request.query)
               listed == listFiles(stream)
               listEntry == [ExecEntry("list", path, stream, listed)
                            EXCEPT !.val = readDirectory(stream).val]
               found == IF listed.kind = "return" THEN FindByName(listed.val.l, path)
                        ELSE <<>>
           IN IF found = <<>> \/ found[1].isDirectory
              THEN Serve("filesGet", AdapterOutcome(listed, listed.val), <<>>, <<listEntry>>)
              ELSE \E second \in ExecStreams :
                      LET r == readFile(second)
                      IN Serve("filesGet", AdapterOutcome(r, r.val), <<>>,
                               <<listEntry, ExecEntry("read", path, second, r)>>)

\* throw Responses.BadRequest("Invalid body", { details: ZodErrorFormatter(..) })
InvalidBody == BadRequest(Lit("Invalid body"), Wrapping("formatted", "issues"))

\* POST /containers/:id/command
CommandHandler ==
    /\ Routed("command")
    /\ IF ~ValidCommandBody(request.body)
       THEN Serve("command", Threw(InvalidBody), <<>>, <<>>)
       ELSE \E stream \in ExecStreams :
               LET r == executeCommand(stream)
               IN Serve("command", AdapterOutcome(r, r.val), <<>>,
                        <<ExecEntry("command", RconCli \o request.body.c, stream, r)>>)

----------------------------------------------------------------------------
(* routes/containers/create.ts, DockerService.createServer *)

\* one issue of a failed safeParse: the path of the value and the issue's code
Issue(path, code) == [path |-> path, code |-> code]

\* z.string().min(lo).max(hi), hi = 0 for a string without .max
zString(v, path, lo, hi) ==
    CASE v.t # "string" -> <<Issue(path, "invalid_type")>>
      [] Len(v.c) < lo -> <<Issue(path, "too_small")>>
      [] hi > 0 /\ Len(v.c) > hi -> <<Issue(path, "too_big")>>
      [] OTHER -> <<>>

\* z.enum(values)
zEnum(v, path, values) ==
    CASE v.t # "string" -> <<Issue(path, "invalid_type")>>
      [] v.c \notin values -> <<Issue(path, "invalid_enum_value")>>
      [] OTHER -> <<>>

\* z.number().int().min(lo).max(hi), on the integers
zInt(v, path, lo, hi) ==
    CASE v.t # "number" -> <<Issue(path, "invalid_type")>>
      [] v.n < lo -> <<Issue(path, "too_small")>>
      [] v.n > hi -> <<Issue(path, "too_big")>>
      [] OTHER -> <<>>

\* schema.default(..) and schema.optional(): a property that is undefined passes
zDefault(v, issues) == IF v.t = "undefined" THEN <<>> ELSE issues

RouteServerTypes ==
    {<<"V", "A", "N", "I", "L", "L", "A">>, Paper, <<"F", "O", "R", "G", "E">>,
     <<"F", "A", "B", "R", "I", "C">>}

\* createServerSchema.safeParse(body).error.issues (empty: success)
createServerSchema(body) ==
    IF body.t # "object"
    THEN <<Issue(<<>>, "invalid_type")>>
    ELSE LET p == body.props
         IN zString(p.name, <<"name">>, 3, 32)
            \o zDefault(p.version, zString(p.version, <<"version">>, 1, 0))
            \o zDefault(p.type, zEnum(p.type, <<"type">>, RouteServerTypes))
            \o zDefault(p.port, zInt(p.port, <<"port">>, 1024, 49151))
            \o zDefault(p.memory, zString(p.memory, <<"memory">>, 0, 0))

\* ZodErrorFormatter(schema, error): an array with one entry per issue, each
\* naming the field the issue is about
ZodErrorFormatter(issues) == Listing(issues)

\* catch (e) { throw Responses.FromCode(error.statusCode, error.json.message || "") }
\* error.json.message throws a TypeError when the error has no json
CaughtAndThrown(e) ==
    IF e.json = "undefined"
    THEN Threw(ErrorObject("TypeError"))
    ELSE Threw(FromCode(e.statusCode,
                        IF e.json = "message" THEN Lit("engine message") ELSE Lit(""),
                        Undefined))

\* the create handler with the body validated by createServer only, after the
\* image was pulled
createRoute_PullFirst(body, pull, create) ==
    LET issues == createServerSchema(body)
    IN IF issues # <<>>
       THEN [outcome |-> Threw(BadRequest(Lit("Invalid body"),
                                 WrappingValue("details", ZodErrorFormatter(issues)))),
             calls |-> <<Call("pull", pull)>>]
       ELSE [outcome |-> IF create.ok THEN Returned(Ok(Obj("server")))
                         ELSE CaughtAndThrown(create),
             calls |-> <<Call("pull", pull), Call("createContainer", create)>>]

\* the create handler with a rejected image pull propagating like any other
\* engine error
createRoute_PullAborts(body, pull, create) ==
    LET issues == createServerSchema(body)
    IN IF issues # <<>>
       THEN [outcome |-> Threw(BadRequest(Lit("Invalid body"),
                                 WrappingValue("details", ZodErrorFormatter(issues)))),
             calls |-> <<>>]
       ELSE IF ~pull.ok
            THEN [outcome |-> CaughtAndThrown(pull), calls |-> <<Call("pull", pull)>>]
            ELSE [outcome |-> IF create.ok THEN Returned(Ok(Obj("server")))
                              ELSE CaughtAndThrown(create),
                  calls |-> <<Call("pull", pull), Call("createContainer", create)>>]

\* the handler of POST /containers: the outcome and the engine calls issued, for
\* the results the engine gives to docker.pull and docker.createContainer.  A
\* body the route's schema accepts is accepted by ServerConfigSchema too; a
\* rejected pull is logged and swallowed.
createRoute(body, pull, create) ==
    LET issues == createServerSchema(body)
    IN IF issues # <<>>
       THEN [outcome |-> Threw(BadRequest(Lit("Invalid body"),
                                 WrappingValue("details", ZodErrorFormatter(issues)))),
             calls |-> <<>>]
       ELSE [outcome |-> IF create.ok THEN Returned(Ok(Obj("server")))
                         ELSE CaughtAndThrown(create),
             calls |-> <<Call("pull", pull), Call("createContainer", create)>>]

\* POST /containers
CreateHandler ==
    /\ Routed("create")
    /\ \E pull \in EngineResults, create \in EngineResults :
           LET run == createRoute(request.body, pull, create)
           IN Serve("create", run.outcome, run.calls, <<>>)

Next ==
    \/ OnRequest
    \/ RequestComplete
    \/ CustomHandler
    \/ HealthHandler
    \/ RestartHandler
    \/ StatusHandler
    \/ RemoveHandler
    \/ ListHandler
    \/ CreateHandler
    \/ DeleteFileHandler
    \/ CreateFileHandler
    \/ WriteFileHandler
    \/ GetFilesHandler
    \/ CommandHandler

Spec == Init /\ [][Next]_vars

----------------------------------------------------------------------------
(* readDirectory on the outputs an ls -p session can produce: lines joined by  *)
(* newlines, each line a name, a name followed by "/", one of the synthetic     *)
(* entries, or a name whose characters are not printable ASCII.                 *)

\* at most MaxLines lines of output
MaxLines == 3

ListingLines ==
    {<<>>,
     <<"a">>,
     <<"B">>,
     <<"b", "/">>,
     <<"A", "/">>,
     <<".", "/">>,
     <<".", ".", "/">>,
     <<" ", "c", "ESC", "[", "0", "m">>,
     <<"NUL", "/">>}

RECURSIVE LinesUpTo(_)
\* the outputs of at most n lines
LinesUpTo(n) ==
    IF n = 0 THEN {<<>>}
    ELSE LinesUpTo(n - 1)
         \cup {IF o = <<>> THEN l ELSE o \o <<"\n">> \o l :
                  o \in LinesUpTo(n - 1), l \in ListingLines}

ListingOutputs == LinesUpTo(MaxLines)

\* the lines of the output as readDirectory cleans them, the empty ones dropped
RECURSIVE CleanedLines(_)
CleanedLines(lines) ==
    IF lines = <<>> THEN <<>>
    ELSE (IF CleanLine(Head(lines)) = <<>> THEN <<>> ELSE <<CleanLine(Head(lines))>>)
         \o CleanedLines(Tail(lines))

\* const output = await this.readDirectory(container, path)
ListDirectory ==
    /\ pc = "idle"
    /\ lsFiles = Undefined
    /\ \E o \in ListingOutputs :
           /\ lsOutput' = o
           /\ lsFiles' = readDirectory([output |-> o, exitCode |-> 0]).val
    /\ UNCHANGED <<httpVars, fsVars, apiVars, startupVars, bindingVars, storeVars, relayVars>>

NextListing == ListDirectory

SpecListing == Init /\ [][NextListing]_vars

----------------------------------------------------------------------------
(* readRoutes: the route table built at startup from the files under the routes *)
(* directory.  A file is the sequence of the segments of its path relative to    *)
(* the routes directory; a segment is a sequence of characters.                  *)

\* at most MaxFiles route files under the routes directory
MaxFiles == 3

IndexTs == <<"i", "n", "d", "e", "x", ".", "t", "s">>
IdDir == <<"[", "i", "d", "]">>
NumberDir == <<"[", "n", ":", "n", "u", "m", "b", "e", "r", "]">>
OpenDir == <<"[", "i", "d">>

\* the files a routes directory of the model can hold
RouteFiles ==
    {<<IndexTs>>,
     <<<<"x", ".", "j", "s">>>>,
     <<<<"a">>, IndexTs>>,
     <<<<"a">>, IdDir, IndexTs>>,
     <<<<"a">>, IdDir, <<"b">>, IndexTs>>,
     <<<<"a">>, IdDir, <<"b">>, IdDir, <<"c", ".", "t", "s", "x">>>>,
     <<<<"a">>, NumberDir, <<"x", ".", "t", "s">>>>,
     <<<<"b">>, IdDir \o <<".", "t", "s">>>>,
     <<<<"b">>, NumberDir \o <<".", "t", "s">>>>,
     <<<<"b">>, <<"i", "n", "d", "e", "x">>, IndexTs>>,
     <<<<"c">>, OpenDir, IndexTs>>,
     <<<<"d">>, OpenDir \o <<".", "t", "s">>>>}

Trees == {t \in SUBSET RouteFiles : Cardinality(t) <= MaxFiles}

\* s.replace(pattern, replacement) for a string pattern: the first occurrence only
replace(s, pattern, replacement) ==
    IF includes(s, pattern)
    THEN LET i == CHOOSE k \in 1..(Len(s) - Len(pattern) + 1) :
                      /\ SubSeq(s, k, k + Len(pattern) - 1) = pattern
                      /\ \A m \in 1..(k - 1) : SubSeq(s, m, m + Len(pattern) - 1) # pattern
         IN SubSeq(s, 1, i - 1) \o replacement \o SubSeq(s, i + Len(pattern), Len(s))
    ELSE s

\* seg.replace(/\.[tj]sx?$/, "")
StripExtension(seg) ==
    LET exts == {<<".", "t", "s">>, <<".", "j", "s">>, <<".", "t", "s", "x">>,
                 <<".", "j", "s", "x">>}
    IN IF \E e \in exts : endsWith(seg, e)
       THEN LET e == CHOOSE x \in exts : endsWith(seg, x)
            IN SubSeq(seg, 1, Len(seg) - Len(e))
       ELSE seg

RECURSIVE join(_, _)
\* segments.join(sep)
join(segments, sep) ==
    IF segments = <<>> THEN <<>>
    ELSE IF Len(segments) = 1 THEN segments[1]
    ELSE segments[1] \o sep \o join(Tail(segments), sep)

\* InferredUrl with the trailing "index" segment kept
InferredUrl_KeepIndex(file) ==
    <<"/">> \o join([i \in 1..Len(file) |-> StripExtension(file[i])], <<"/">>)

\* the URL inferred from the path: extensions stripped, a trailing "index" dropped
InferredUrl(file) ==
    LET withoutExt == [i \in 1..Len(file) |-> StripExtension(file[i])]
        kept == IF withoutExt[Len(withoutExt)] = <<"i", "n", "d", "e", "x">>
                THEN SubSeq(withoutExt, 1, Len(withoutExt) - 1) ELSE withoutExt
    IN <<"/">> \o join(kept, <<"/">>)

\* p => { noBrackets = p.replace("[", "").replace("]", ""); type = ...; name = ... }
ParamOf(p, i) ==
    LET noBrackets == replace(replace(p, <<"[">>, <<>>), <<"]">>, <<>>)
        parts == split(noBrackets, ":")
    IN [name |-> parts[1],
        type |-> IF includes(noBrackets, <<":">>) THEN parts[2]
                 ELSE <<"s", "t", "r", "i", "n", "g">>,
        index |-> i]

\* filePath.split("/").filter((p) => p.startsWith("[")).map(...)
ParamsOf(file) ==
    LET bracketed == SelectSeq(file, LAMBDA p : startsWith(p, <<"[">>))
    IN [i \in 1..Len(bracketed) |-> ParamOf(bracketed[i], i - 1)]

RECURSIVE RewriteUrl(_, _)
\* params.forEach((param) => { url = url.replace(`[name:type]`, `:name`);
\*                             url = url.replace(`[name]`, `:name`); })
RewriteUrl(url, params) ==
    IF params = <<>> THEN url
    ELSE LET param == Head(params)
             typed == replace(url, <<"[">> \o param.name \o <<":">> \o param.type \o <<"]">>,
                              <<":">> \o param.name)
         IN RewriteUrl(replace(typed, <<"[">> \o param.name \o <<"]">>,
                               <<":">> \o param.name),
                       Tail(params))

\* routes.push({ ...route, url: route.url || url, params })
Descriptor(file) ==
    [file |-> file, url |-> RewriteUrl(InferredUrl(file), ParamsOf(file)),
     params |-> ParamsOf(file)]

\* the names fs.readdirSync(dir) returns, dir given by its segments
DirEntries(tree, dir) ==
    {f[Len(dir) + 1] : f \in {g \in tree : Len(g) > Len(dir) /\ SubSeq(g, 1, Len(dir)) = dir}}

RECURSIVE readEntries(_, _, _)
\* for (const file of files): a directory is read recursively, a file is pushed
readEntries(tree, dir, names) ==
    IF names = {} THEN <<>>
    ELSE LET name == CHOOSE n \in names : TRUE
             filePath == Append(dir, name)
         IN (IF filePath \in tree THEN <<Descriptor(filePath)>>
             ELSE readEntries(tree, filePath, DirEntries(tree, filePath)))
            \o readEntries(tree, dir, names \ {name})

\* await readRoutes("routes", path.join(__dirname, "routes"))
readRoutes(tree) == readEntries(tree, <<>>, DirEntries(tree, <<>>))

\* the top-level await of readRoutes: the routes array is filled
ReadRoutes ==
    /\ startup = "init"
    /\ \E tree \in Trees :
           /\ routeFiles' = tree
           /\ routes' = readRoutes(tree)
    /\ startup' = "built"
    /\ UNCHANGED <<registered, httpVars, fsVars, apiVars, listingVars, bindingVars,
                   storeVars, relayVars>>

\* routes?.map((route) => { app.route({ method, url, handler }) })
RegisterRoutes ==
    /\ startup = "built"
    /\ registered' = {routes[i].url : i \in 1..Len(routes)}
    /\ startup' = "listening"
    /\ UNCHANGED <<routeFiles, routes, httpVars, fsVars, apiVars, listingVars,
                   bindingVars, storeVars, relayVars>>

NextStartup == ReadRoutes \/ RegisterRoutes

SpecStartup == Init /\ [][NextStartup]_vars

----------------------------------------------------------------------------
(* The binding of a path parameter in the route handler wrapper: the raw value   *)
(* of request.params is coerced to the declared type of the parameter.           *)

\* a raw value has at most MaxRawLen characters
MaxRawLen == 3

RawChars == {"4", "2", "a", " ", "-"}

RECURSIVE StringsUpTo(_)
StringsUpTo(n) ==
    IF n = 0 THEN {<<>>}
    ELSE StringsUpTo(n - 1) \cup {Append(r, ch) : r \in StringsUpTo(n - 1), ch \in RawChars}

\* request.params[name]: a string, or undefined when the URL has no such placeholder
RawValues == {Text(r) : r \in StringsUpTo(MaxRawLen)} \cup {Undefined}

\* the declared types: the three the switch names, and one it does not
ParamTypes == {"string", "number", "boolean", "uuid"}

DigitChars == <<"0", "1", "2", "3", "4", "5", "6", "7", "8", "9">>

DigitValue(ch) == (CHOOSE i \in 1..Len(DigitChars) : DigitChars[i] = ch) - 1

RECURSIVE DecimalValue(_)
\* the value of a sequence of decimal digits
DecimalValue(digits) ==
    IF digits = <<>> THEN 0
    ELSE DecimalValue(SubSeq(digits, 1, Len(digits) - 1)) * 10
         + DigitValue(digits[Len(digits)])

NaN == [t |-> "number", nan |-> TRUE, n |-> 0]
Num(n) == [t |-> "number", nan |-> FALSE, n |-> n]

AllDigits(str) == \A i \in 1..Len(str) : str[i] \in Digits

\* Number(value) that reads the leading digits and ignores what follows them
Number_LeadingDigits(value) ==
    IF value.t = "undefined" THEN NaN
    ELSE LET str == trim(value.c)
             stops == {i \in 1..Len(str) : str[i] \notin Digits}
             digits == IF stops = {} THEN str
                       ELSE SubSeq(str, 1, (CHOOSE i \in stops : \A j \in stops : i <= j) - 1)
         IN IF digits = <<>> THEN NaN ELSE Num(DecimalValue(digits))

\* Number(value): undefined is NaN; of a string, white space is trimmed, the empty
\* string is 0, an optionally signed decimal literal is its value, the rest is NaN
Number(value) ==
    IF value.t = "undefined" THEN NaN
    ELSE LET str == trim(value.c)
             signed == str # <<>> /\ str[1] \in {"-", "+"}
             digits == IF signed THEN Tail(str) ELSE str
         IN IF str = <<>> THEN Num(0)
            ELSE IF digits # <<>> /\ AllDigits(digits)
                 THEN Num(IF signed /\ str[1] = "-" THEN 0 - DecimalValue(digits)
                          ELSE DecimalValue(digits))
                 ELSE NaN

\* Boolean(value)
Boolean(value) == Bool(Truthy(value))

\* switch (routeParam.type) { case "string": value = value.toString(); ... }
\* undefined.toString() throws a TypeError
BindParam(type, value) ==
    CASE type = "string" -> IF value.t = "undefined" THEN [state |-> "threw"]
                            ELSE [state |-> "bound", value |-> value]
      [] type = "number" -> [state |-> "bound", value |-> Number(value)]
      [] type = "boolean" -> [state |-> "bound", value |-> Boolean(value)]
      [] OTHER -> [state |-> "bound", value |-> value]

\* route.params?.map((routeParam) => { ... }) for one parameter of the route
BindParams ==
    /\ pc = "idle"
    /\ bound.state = "unbound"
    /\ \E type \in ParamTypes, raw \in RawValues :
           /\ routeParam' = type
           /\ rawValue' = raw
           /\ bound' = BindParam(type, raw)
    /\ UNCHANGED <<httpVars, fsVars, apiVars, listingVars, startupVars, storeVars, relayVars>>

NextBinding == BindParams

SpecBinding == Init /\ [][NextBinding]_vars

----------------------------------------------------------------------------
(* RedisService: the log list of each container.  A stored line is its text,  *)
(* and the number it had among the lines appended to its container, which the  *)
(* properties read and the code does not.                                      *)

LOG_LIMIT == 1000

\* addLog is called at most MaxAppends times for the container c1
MaxAppends == 1002

\* addLog is called at most MaxOtherAppends times for the container c2
MaxOtherAppends == 1

ContainerIds == {"c1", "c2"}

AppendBound(c) == IF c = "c1" THEN MaxAppends ELSE MaxOtherAppends

\* the texts of the lines of the model, taken in turn
LineTexts ==
    <<<<"[", "a", "]">>,
      <<"x", "[", "b", "]">>,
      <<"NUL", "[", "c", "]", "FFFD">>>>

\* client.lpush(key, line)
lpush(list, line) == <<line>> \o list

\* client.ltrim(key, start, stop), for start and stop that are not negative
ltrim(list, start, stop) ==
    SubSeq(list, start + 1, IF stop + 1 < Len(list) THEN stop + 1 ELSE Len(list))

\* addLog with the list trimmed at its head
addLog_TrimHead(list, line) ==
    LET pushed == lpush(list, line)
    IN IF Len(pushed) > LOG_LIMIT THEN Tail(pushed) ELSE pushed

\* RedisService.addLog: lpush then ltrim(0, LOG_LIMIT - 1), two commands written
\* to the one connection in the same turn, which the server runs in that order
addLog(list, line) == ltrim(lpush(list, line), 0, LOG_LIMIT - 1)

\* logs[i].replace(/[^\x20-\x7E\n]/g, ""), then cut before the first "[" when it
\* is not the first character; an empty line is left as it is
CleanLog(text) ==
    IF text = <<>> THEN text
    ELSE LET printable == StripNonPrintable(text)
             firstBracket == indexOf(printable, "[")
         IN IF firstBracket > 0 THEN SubSeq(printable, firstBracket + 1, Len(printable))
            ELSE printable

\* Array.prototype.reverse
reverse(list) == [i \in 1..Len(list) |-> list[Len(list) - i + 1]]

\* getLogs with the list in the order lrange returns it
getLogs_HeadFirst(list) == [i \in 1..Len(list) |-> [list[i] EXCEPT !.text = CleanLog(@)]]

\* RedisService.getLogs: lrange(key, 0, -1), each line cleaned, then reversed
getLogs(list) == reverse([i \in 1..Len(list) |-> [list[i] EXCEPT !.text = CleanLog(@)]])

\* redisService.addLog(containerId, line), called for a line of a log stream
AddLog ==
    /\ pc = "idle"
    /\ logsReply.id = "none"
    /\ \E c \in ContainerIds :
           /\ appended[c] < AppendBound(c)
           /\ appended' = [appended EXCEPT ![c] = @ + 1]
           /\ store' = [store EXCEPT
                           ![c] = addLog(@, [seq |-> appended[c] + 1,
                                             text |-> LineTexts[(appended[c] % 3) + 1]])]
    /\ UNCHANGED <<logsReply, httpVars, fsVars, apiVars, listingVars, startupVars,
                   bindingVars, relayVars>>

\* GET /containers/:id/logs: const logs = await redisService.getLogs(id)
GetLogs ==
    /\ pc = "idle"
    /\ logsReply.id = "none"
    /\ \E c \in ContainerIds : logsReply' = [id |-> c, logs |-> getLogs(store[c])]
    /\ UNCHANGED <<store, appended, httpVars, fsVars, apiVars, listingVars, startupVars,
                   bindingVars, relayVars>>

NextStore == AddLog \/ GetLogs

SpecStore == Init /\ [][NextStore]_vars

----------------------------------------------------------------------------
(* SocketService: the live log relay.  Each socket subscribes at most once, to *)
(* the container c1; its subscription opens a log stream of its own (follow    *)
(* mode, tail 0: the stream delivers the chunks the container writes after the *)
(* stream was opened, in the order written).  The handler of "subscribe-logs"  *)
(* awaits the container and the stream, and only then attaches its listeners   *)
(* to the stream and to the socket.  Of socket k, first is the place in        *)
(* produced of the first chunk its stream delivers and next the place of the   *)
(* chunk it delivers next.                                                     *)

\* the container writes at most MaxChunks chunks to its log
MaxChunks == 2

Sockets == {"s1", "s2"}

\* the chunks a log stream emits
LogChunks ==
    {<<"[", "a", "]">>,
     <<" ", "\n">>,
     <<"x", "ESC", "[", "0", "m", "[", "b", "]", "\n", "[", "c", "]", "\n">>}

\* line.substring(firstBracket) when firstBracket > 0
FromFirstBracket(line) ==
    IF indexOf(line, "[") > 0 THEN SubSeq(line, indexOf(line, "[") + 1, Len(line))
    ELSE line

\* the "data" listener with the line cut at its first "[" before the ANSI
\* sequences are removed
RelayLine_CutBeforeAnsi(chunk) == StripAnsi(FromFirstBracket(trim(chunk)))

\* the line the "data" listener makes of a chunk: trimmed, ANSI sequences removed,
\* cut before its first "["
RelayLine(chunk) == FromFirstBracket(StripAnsi(trim(chunk)))

StreamEnded == <<"[", "s", "t", "r", "e", "a", "m", " ", "e", "n", "d", "e", "d", "]">>

\* the state the relay leaves alone
nonRelayVars == <<httpVars, listingVars, startupVars, bindingVars, fsVars, apiVars>>

\* the container c1 writes a chunk to its log; it writes none after it stopped,
\* which is when its log streams end
ContainerLogs ==
    /\ chunks < MaxChunks
    /\ \A k \in Sockets : sockets[k].subscription # "ended"
    /\ \E chunk \in LogChunks : produced' = Append(produced, chunk)
    /\ chunks' = chunks + 1
    /\ UNCHANGED <<sockets, emitted, storeVars, nonRelayVars>>

\* socket.on("subscribe-logs", async (containerId) => { ... await ... })
Subscribe(k) ==
    /\ sockets[k].connected
    /\ sockets[k].subscription = "none"
    /\ sockets' = [sockets EXCEPT ![k].subscription = "opening"]
    /\ UNCHANGED <<emitted, chunks, produced, storeVars, nonRelayVars>>

\* container.logs(..) resolved: the handler attaches "data" and "end" to the
\* stream and "disconnect" to the socket
StreamOpened(k) ==
    /\ sockets[k].subscription = "opening"
    /\ sockets' = [sockets EXCEPT ![k].subscription = "attached",
                                  ![k].listeners = {"data", "end"},
                                  ![k].onDisconnect = TRUE,
                                  ![k].first = Len(produced) + 1,
                                  ![k].next = Len(produced) + 1]
    /\ UNCHANGED <<emitted, chunks, produced, storeVars, nonRelayVars>>

\* getContainer or container.logs rejected: the catch block emits the error
OpenFailed(k) ==
    /\ sockets[k].subscription = "opening"
    /\ sockets' = [sockets EXCEPT ![k].subscription = "failed"]
    /\ emitted' = [emitted EXCEPT ![k] = Append(@, <<"e", "r", "r", "o", "r">>)]
    /\ UNCHANGED <<chunks, produced, storeVars, nonRelayVars>>

\* the socket disconnects: its "disconnect" listeners run, each one
\* logStream.removeAllListeners()
Disconnect(k) ==
    /\ sockets[k].connected
    /\ sockets' = [sockets EXCEPT ![k].connected = FALSE,
                                  ![k].listeners =
                                      IF sockets[k].onDisconnect THEN {} ELSE @]
    /\ UNCHANGED <<emitted, chunks, produced, storeVars, nonRelayVars>>

\* the stream of the subscription emits "data" with the next chunk of the
\* container and its listener runs
StreamData(k) ==
    /\ sockets[k].subscription = "attached"
    /\ "data" \in sockets[k].listeners
    /\ sockets[k].next <= Len(produced)
    /\ sockets' = [sockets EXCEPT ![k].next = @ + 1]
    /\ LET chunk == produced[sockets[k].next]
       IN IF trim(chunk) = <<>>
          THEN UNCHANGED <<emitted, storeVars>>
          ELSE /\ store' = [store EXCEPT
                              !["c1"] = addLog(@, [seq |-> appended["c1"] + 1,
                                                   text |-> RelayLine(chunk)])]
               /\ appended' = [appended EXCEPT !["c1"] = @ + 1]
               /\ emitted' = [emitted EXCEPT ![k] = Append(@, RelayLine(chunk))]
               /\ UNCHANGED logsReply
    /\ UNCHANGED <<chunks, produced, nonRelayVars>>

\* the stream of the subscription emits "end", after all its "data" events, and
\* its listener runs
StreamEnd(k) ==
    /\ sockets[k].subscription = "attached"
    /\ "end" \in sockets[k].listeners
    /\ sockets[k].next > Len(produced)
    /\ sockets' = [sockets EXCEPT ![k].subscription = "ended"]
    /\ emitted' = [emitted EXCEPT ![k] = Append(@, StreamEnded)]
    /\ UNCHANGED <<chunks, produced, storeVars, nonRelayVars>>

NextRelay ==
    \/ ContainerLogs
    \/ \E k \in Sockets : Subscribe(k)
    \/ \E k \in Sockets : StreamOpened(k)
    \/ \E k \in Sockets : OpenFailed(k)
    \/ \E k \in Sockets : Disconnect(k)
    \/ \E k \in Sockets : StreamData(k)
    \/ \E k \in Sockets : StreamEnd(k)

SpecRelay == Init /\ [][NextRelay]_vars

----------------------------------------------------------------------------
(* index.ts: the loader that registers the routes without the onRequest hook.   *)
(* Its wrapper differs from the one of utils/index.ts in the HttpError branch   *)
(* of the catch block, which does not return after it has sent the reply.       *)

\* the reply.status(..).send(..) calls the wrapper of index.ts makes for a
\* handler outcome
LoaderWrapper(o) ==
    CASE o.kind = "return" -> <<ReplyToReturn(o.val)>>
      [] o.kind = "throw" /\ o.val.cls = "HttpError" ->
           <<ReplyToHttpError(o.val), ReplyToUnknown(o.val)>>
      [] o.kind = "throw" /\ o.val.cls # "HttpError" /\ MessageReadThrows(o.val) -> <<>>
      [] OTHER -> <<ReplyToUnknown(o.val)>>

\* a request arrives and is routed; there is no hook, every request reaches its
\* handler
LoaderRequest ==
    /\ pc = "idle"
    /\ \E id \in Ids, auth \in AuthHeaders, query \in Queries("custom") :
          request' = [route |-> "custom", id |-> id, query |-> query,
                      url |-> UrlOf("custom", id, query), authorization |-> auth,
                      body |-> Undefined]
    /\ pc' = "handler"
    /\ replies' = <<>>
    /\ handlerRan' = FALSE
    /\ outcome' = NoOutcome
    /\ escaped' = FALSE
    /\ engineCalls' = <<>>
    /\ execLog' = <<>>
    /\ UNCHANGED offRequestVars

\* the wrapper invokes route.handler and maps its outcome to the replies.  A
\* second send on a reply already sent is rejected by the framework or only
\* logged, depending on its version: the exception may or may not leave the
\* catch block.
LoaderServe ==
    /\ Routed("custom")
    /\ \E o \in CustomOutcomes, thrown \in BOOLEAN :
          /\ handlerRan' = TRUE
          /\ outcome' = o
          /\ replies' = LoaderWrapper(o)
          /\ escaped' = CASE Len(LoaderWrapper(o)) = 0 -> TRUE
                          [] Len(LoaderWrapper(o)) = 2 -> thrown
                          [] OTHER -> FALSE
    /\ pc' = "done"
    /\ UNCHANGED <<request, engineCalls, execLog, offRequestVars>>

NextLoader ==
    \/ LoaderRequest
    \/ LoaderServe
    \/ RequestComplete

SpecLoader == Init /\ [][NextLoader]_vars

----------------------------------------------------------------------------
(* A file written through PUT /containers/:id/files and read back with         *)
(* DockerService.readFile.  The container keeps the content of each file; a    *)
(* write that succeeded stores the data of the request at the path, and the    *)
(* cat session of a read outputs the content of the file, or the message of    *)
(* cat when there is no such file.                                             *)

\* the values of the path query of the file requests
FileQueries == {<<"a">>, <<"/", "d", "a", "t", "a", "/", "a">>, <<"b">>}

\* the data of the PUT requests: printable ASCII, except for the last, which
\* has a newline
FileContents ==
    {<<>>, <<"a">>, <<"a", "b">>, <<" ", "a">>, <<"a", " ">>, <<"a", " ", "b">>,
     NoSuchFile, <<"a", "\n">>}

\* the output of "cat path" in the container
CatOutput(path) ==
    IF disk[path].t = "undefined"
    THEN <<"c", "a", "t", ":", " ">> \o path \o <<":", " ">> \o NoSuchFile
    ELSE disk[path].c

\* the state the file operations leave alone
nonFsVars ==
    <<httpVars, listingVars, startupVars, bindingVars, storeVars, relayVars, apiVars>>

\* PUT /containers/:id/files?path=q with body { data }: the handler prepares the
\* path and awaits dockerService.writeFile(id, path, data)
PutFile ==
    /\ pc = "idle"
    /\ \E q \in FileQueries, data \in FileContents :
          LET path == FilePath("filesPut", Text(q))
              r == writeFile([output |-> <<>>, exitCode |-> 0])
          IN /\ r.kind = "return"
             /\ disk' = [disk EXCEPT ![path] = Text(data)]
             /\ lastWrite' = [path |-> path, data |-> data]
    /\ readBack' = [path |-> <<>>, kind |-> "none", val |-> Undefined]
    /\ UNCHANGED nonFsVars

\* dockerService.readFile(id, path), the path prepared as the GET handler does
ReadFile ==
    /\ pc = "idle"
    /\ \E q \in FileQueries :
          LET path == FilePath("filesGet", Text(q))
              r == readFile([output |-> CatOutput(path), exitCode |->
                                IF disk[path].t = "undefined" THEN 1 ELSE 0])
          IN readBack' = [path |-> path, kind |-> r.kind, val |-> r.val]
    /\ UNCHANGED <<disk, lastWrite, nonFsVars>>

\* dockerService.deleteFile(id, path) on a file that exists
RemoveFile ==
    /\ pc = "idle"
    /\ \E q \in FileQueries :
          LET path == FilePath("filesDelete", Text(q))
          IN /\ disk[path].t # "undefined"
             /\ deleteFile([output |-> <<>>, exitCode |-> 0]).kind = "return"
             /\ disk' = [disk EXCEPT ![path] = Undefined]
             /\ lastWrite' = IF lastWrite.path = path
                             THEN [path |-> <<>>, data |-> <<>>] ELSE lastWrite
    /\ readBack' = [path |-> <<>>, kind |-> "none", val |-> Undefined]
    /\ UNCHANGED nonFsVars

NextFiles ==
    \/ PutFile
    \/ ReadFile
    \/ RemoveFile

SpecFiles == Init /\ [][NextFiles]_vars

----------------------------------------------------------------------------
(* The servers API: the Hono application of routes/servers, mounted at          *)
(* /api/v1/servers.  A request runs the handlers registered for its method and  *)
(* path in the order of their registration; a handler that returns a response   *)
(* or throws ends the request, and the handlers after it do not run.  What a    *)
(* handler throws goes to the error handler of the application.                 *)

ApiReply(status, type, stat, success, data) ==
    [status |-> status, type |-> type, stat |-> stat, success |-> success, data |-> data]

NoApiReply == ApiReply(0, "none", "none", "none", "none")

\* the handlers of the servers application, in the order of their registration
serversHandlers ==
    << [method |-> "GET", path |-> "/", handler |-> "openapi list"],
       [method |-> "POST", path |-> "/", handler |-> "openapi create"],
       [method |-> "GET", path |-> "/", handler |-> "list"],
       [method |-> "GET", path |-> "/:id", handler |-> "status"],
       [method |-> "POST", path |-> "/:id/start", handler |-> "start"],
       [method |-> "POST", path |-> "/:id/stop", handler |-> "stop"],
       [method |-> "DELETE", path |-> "/:id", handler |-> "delete"] >>

\* the handler that runs first for a method and a path
FirstHandler(method, path) ==
    LET matching == {i \in 1..Len(serversHandlers) :
                        serversHandlers[i].method = method /\ serversHandlers[i].path = path}
        first == CHOOSE i \in matching : \A j \in matching : i <= j
    IN serversHandlers[first].handler

\* the error handler of an application that sets none: an error that is not an
\* HTTPException is answered with the text "Internal Server Error" and status 500
HonoErrorHandler == ApiReply(500, "text", "none", "none", "none")

\* servers.openapi({ method: "get", path: "/" }, ..): its first statement throws
\* Errors.BadRequest("testing an error")
openapiListServers == HonoErrorHandler

\* servers.get("/", ..): c.json({ status: "success", data: [] })
getListServers == ApiReply(200, "json", "success", "none", "array")

\* the createServerSchema of routes/servers: version and type are required
apiCreateServerSchema(body) ==
    LET p == body.props
    IN zString(p.name, <<"name">>, 3, 32)
       \o zString(p.version, <<"version">>, 1, 0)
       \o zEnum(p.type, <<"type">>, RouteServerTypes)
       \o zDefault(p.port, zInt(p.port, <<"port">>, 1024, 49151))
       \o zDefault(p.memory, zString(p.memory, <<"memory">>, 0, 0))

\* defaultHook(result, c): a failed validation is answered with status 500, a
\* ZodError being an Error without a statusCode
defaultHook(issues) ==
    IF issues # <<>> THEN ApiReply(500, "json", "none", "false", "none") ELSE NoApiReply

\* servers.openapi({ method: "post", path: "/" }, ..)
openapiCreateServer(body, create) ==
    LET hooked == defaultHook(apiCreateServerSchema(body))
    IN IF hooked # NoApiReply THEN hooked
       ELSE IF create.ok THEN ApiReply(201, "json", "STOPPED", "none", "none")
       ELSE ApiReply(500, "json", "500", "none", "none")

\* servers.get("/:id", ..), with dockerService.getServerStatus of
\* services/docker.service: null for an inspect that failed with 404
getServer(inspect) ==
    IF inspect.ok THEN ApiReply(200, "json", "success", "none", "object")
    ELSE IF inspect.statusCode = 404 THEN ApiReply(404, "json", "error", "none", "none")
    ELSE ApiReply(500, "json", "error", "none", "none")

\* servers.post("/:id/start", ..) and servers.post("/:id/stop", ..)
startOrStopServer(result) ==
    IF result.ok THEN ApiReply(200, "json", "success", "none", "none")
    ELSE ApiReply(500, "json", "error", "none", "none")

\* servers.delete("/:id", ..)
deleteServer == ApiReply(200, "json", "success", "none", "none")

\* the state the servers API leaves alone
nonApiVars ==
    <<httpVars, listingVars, startupVars, bindingVars, storeVars, relayVars, fsVars>>

ApiRequests ==
    {[method |-> "GET", path |-> "/", id |-> <<>>, body |-> Undefined]}
    \cup {[method |-> "POST", path |-> "/", id |-> <<>>, body |-> b] : b \in ServerBodies}
    \cup {[method |-> "GET", path |-> "/:id", id |-> i, body |-> Undefined] : i \in Ids}
    \cup {[method |-> "POST", path |-> "/:id/start", id |-> i, body |-> Undefined] : i \in Ids}
    \cup {[method |-> "POST", path |-> "/:id/stop", id |-> i, body |-> Undefined] : i \in Ids}
    \cup {[method |-> "DELETE", path |-> "/:id", id |-> i, body |-> Undefined] : i \in Ids}

\* a request arrives at /api/v1/servers
ApiRequest ==
    /\ apiPc = "idle"
    /\ \E r \in ApiRequests : apiRequest' = r
    /\ apiPc' = "received"
    /\ apiReply' = NoApiReply
    /\ UNCHANGED nonApiVars

\* the first handler of the request runs and the request is answered with reply
ApiServe(method, path, handler, reply) ==
    /\ apiPc = "received"
    /\ apiRequest.method = method
    /\ apiRequest.path = path
    /\ FirstHandler(method, path) = handler
    /\ apiReply' = reply
    /\ apiPc' = "done"
    /\ UNCHANGED <<apiRequest, nonApiVars>>

ServeOpenapiList == ApiServe("GET", "/", "openapi list", openapiListServers)

ServeOpenapiCreate ==
    \E create \in EngineResults :
        ApiServe("POST", "/", "openapi create", openapiCreateServer(apiRequest.body, create))

ServeStatus ==
    \E inspect \in InspectResults : ApiServe("GET", "/:id", "status", getServer(inspect))

ServeStart ==
    \E result \in EngineResults :
        ApiServe("POST", "/:id/start", "start", startOrStopServer(result))

ServeStop ==
    \E result \in EngineResults :
        ApiServe("POST", "/:id/stop", "stop", startOrStopServer(result))

ServeDelete == ApiServe("DELETE", "/:id", "delete", deleteServer)

\* the response was sent
ApiComplete ==
    /\ apiPc = "done"
    /\ apiPc' = "idle"
    /\ apiRequest' = [method |-> "none", path |-> "none", id |-> <<>>, body |-> Undefined]
    /\ apiReply' = NoApiReply
    /\ UNCHANGED nonApiVars

NextApi ==
    \/ ApiRequest
    \/ ServeOpenapiList
    \/ ServeOpenapiCreate
    \/ ServeStatus
    \/ ServeStart
    \/ ServeStop
    \/ ServeDelete
    \/ ApiComplete

SpecApi == Init /\ [][NextApi]_vars

----------------------------------------------------------------------------
(* Properties *)

\* the request has been answered, or rejected by the hook
Answered == pc \in {"rejected", "done"}

\* the operations of the command-execution adapter that are part of the source
AdapterOps == {"list", "read", "delete", "create", "command"}

\* the operations that take a file path
PathOps == {"list", "read", "delete", "create", "write"}

\* exactly one reply was sent, with this status and success: false
FailedWith(status) ==
    /\ Len(replies) = 1
    /\ replies[1].status = status
    /\ "success" \in DOMAIN replies[1].body
    /\ replies[1].body.success = Bool(FALSE)

\* C1: a request to a route that is not on the allow-list, whatever its URL and
\* query string, whose Authorization header is not "Bearer <token>" is answered
\* 401 and its route handler is never invoked.
C1_UnauthenticatedIsRejected ==
    (Answered /\ request.route \notin AllowListed
        /\ ~TokenMatches(request.authorization))
    => (pc = "rejected" /\ ~handlerRan /\ FailedWith(401))

\* C2: when the handler raises a typed error of kind K, the reply has the status
\* bound to K, success false, and the error field holds the kind K.
C2_TypedErrorEnvelope ==
    (pc = "done" /\ outcome.kind = "throw" /\ outcome.val.cls = "HttpError")
    => \A k \in ErrorKinds :
          outcome.val.status = StatusOfKind(k)
          => (FailedWith(StatusOfKind(k)) /\ replies[1].body.error = Lit(k))

\* C3: whatever the handler throws that is not an HttpError, the wrapper itself
\* replies 500 with success false, error and message, and nothing escapes its
\* catch block.
C3_UnclassifiedErrorIsShaped ==
    (pc = "done" /\ outcome.kind = "throw" /\ outcome.val.cls # "HttpError")
    => (~escaped /\ FailedWith(500)
        /\ {"error", "message"} \subseteq DOMAIN replies[1].body)

\* C4: when the handler returns HttpResponse(status, body), the one reply sent has
\* exactly that status and the envelope { success: true, data: body }, the body
\* unchanged (a body that is undefined has no data member in the JSON).
C4_SuccessEnvelope ==
    (pc = "done" /\ outcome.kind = "return" /\ outcome.val.cls = "HttpResponse")
    => /\ Len(replies) = 1
       /\ replies[1].status = outcome.val.status
       /\ replies[1].body.success = Bool(TRUE)
       /\ DOMAIN replies[1].body =
             IF outcome.val.body.t = "undefined" THEN {"success"}
             ELSE {"success", "data"}
       /\ outcome.val.body.t # "undefined" => replies[1].body.data = outcome.val.body

\* C4 witness: a handler returned a 201 outcome with a payload and the reply
\* carries the status and the payload.
C4_Witness ==
    /\ pc = "done"
    /\ outcome = Returned(Created(Obj("payload")))
    /\ replies = <<[status |-> 201,
                    body |-> [success |-> Bool(TRUE), data |-> Obj("payload")]]>>

\* C5: every reply has a boolean success field, and every reply with success
\* false also has error and message fields.
C5_EveryReplyHasEnvelope ==
    \A i \in 1..Len(replies) :
        /\ "success" \in DOMAIN replies[i].body
        /\ replies[i].body.success.t = "boolean"
        /\ replies[i].body.success = Bool(FALSE)
           => {"error", "message"} \subseteq DOMAIN replies[i].body

\* C6: on the lifecycle routes, when the last engine call of the request failed
\* with status code s the reply has status s and an error envelope, and when no
\* engine call failed the reply is 200.
C6_EngineStatusPassthrough ==
    (pc = "done" /\ request.route \in {"restart", "remove", "list", "status"}
        /\ engineCalls # <<>>)
    => LET last == engineCalls[Len(engineCalls)]
       IN /\ (\A i \in 1..Len(engineCalls) : engineCalls[i].ok)
             => (Len(replies) = 1 /\ replies[1].status = 200)
          /\ (~last.ok /\ last.statusCode # 0) => FailedWith(last.statusCode)

\* C7: GET /containers/:id/status answers 200 with the status when the container
\* exists and 404 when the engine reports that it does not exist.
C7_StatusOr404 ==
    (pc = "done" /\ request.route = "status")
    => /\ (\A i \in 1..Len(engineCalls) : engineCalls[i].ok)
          => (Len(replies) = 1 /\ replies[1].status = 200
              /\ replies[1].body.data = Obj("status"))
       /\ (\E i \in 1..Len(engineCalls) :
              ~engineCalls[i].ok /\ engineCalls[i].statusCode = 404)
          => FailedWith(404)

\* C8: on every file route and for every path query value, the path handed to the
\* adapter starts with "/data/" and holds no "..".
C8_PathIsSandboxed ==
    \A i \in 1..Len(execLog) :
        execLog[i].op \in PathOps
        => (startsWith(execLog[i].arg, DataPrefix)
            /\ ~includes(execLog[i].arg, <<".", ".">>))

\* C9: when an exec session ends with a non-zero exit code and its output does not
\* hold the not-found text, the operation returns no result and the request fails
\* with an internal error.
C9_NonZeroExitFails ==
    \A i \in 1..Len(execLog) :
        (execLog[i].op \in AdapterOps /\ execLog[i].stream.exitCode # 0
            /\ ~includes(execLog[i].stream.output, NoSuchFile))
        => (execLog[i].kind # "return" /\ FailedWith(500))

\* C10: when the output of an exec session holds "No such file or directory", the
\* operation is classified not-found whatever the exit code: readDirectory
\* returns null, the operation raises the 404 error, no success result is
\* returned and the request is answered 404.
C10_NotFoundWhateverExitCode ==
    \A i \in 1..Len(execLog) :
        (execLog[i].op \in AdapterOps
            /\ includes(execLog[i].stream.output, NoSuchFile))
        => /\ execLog[i].kind = "throw"
           /\ execLog[i].status = 404
           /\ execLog[i].op = "list" => execLog[i].val = Null
           /\ i = Len(execLog)
           /\ outcome = Threw(NotFoundError)
           /\ FailedWith(404)

\* C10 witness: a listing session that ended with exit code 0 and printed the
\* not-found text was answered 404.
C10_Witness ==
    /\ pc = "done"
    /\ Len(execLog) = 1
    /\ execLog[1].op = "list"
    /\ execLog[1].stream.exitCode = 0
    /\ includes(execLog[1].stream.output, NoSuchFile)
    /\ execLog[1].stream.output # NoSuchFile
    /\ FailedWith(404)

\* the text is free of escape sequences and of control characters: every
\* character is printable ASCII or a newline
Sanitized(text) == \A i \in 1..Len(text) : text[i] \in Printable \cup {"\n"}

\* C11: every text the adapter returns to a caller (the result of read, delete,
\* create and run-command, and the name of every listing entry) holds no escape
\* sequence and no control character other than newline, whatever the raw output.
C11_ResultsAreSanitized ==
    \A i \in 1..Len(execLog) :
        (execLog[i].op \in AdapterOps /\ execLog[i].kind = "return")
        => /\ execLog[i].val.t = "string" => Sanitized(execLog[i].val.c)
           /\ \A j \in 1..Len(execLog[i].val.l) : Sanitized(execLog[i].val.l[j].name)

\* the entries readDirectory returned
Entries == IF lsFiles.t = "array" THEN lsFiles.l ELSE <<>>

\* C12: the listing readDirectory returns holds no "./" or "../" entry and no empty
\* entry, marks isDirectory exactly for the lines ending in "/", and has all
\* directories before all files and each group in case-insensitive order of name.
C12_ListingIsCleanAndSorted ==
    lsFiles.t = "array"
    => LET kept == CleanedLines(split(lsOutput, "\n"))
       IN /\ \A i \in 1..Len(Entries) :
                /\ Entries[i].name # <<>>
                /\ ~(Entries[i].isDirectory /\ Entries[i].name \in {<<".">>, <<".", ".">>})
                /\ \E k \in 1..Len(kept) :
                      /\ Entries[i].isDirectory = endsWith(kept[k], <<"/">>)
                      /\ kept[k] = Entries[i].name
                                   \o (IF Entries[i].isDirectory THEN <<"/">> ELSE <<>>)
          /\ \A i, j \in 1..Len(Entries) :
                i < j => /\ Entries[j].isDirectory => Entries[i].isDirectory
                         /\ Entries[i].isDirectory = Entries[j].isDirectory
                            => localeCompare(Entries[i].name, Entries[j].name) <= 0

\* every entry comes from a cleaned line other than "./" and "../", one entry per
\* such line, is a directory exactly when its line ends in "/", and the entries
\* are in the order of the comparator (names may be empty)
ListingMarkedAndSorted ==
    lsFiles.t = "array"
    => LET kept == CleanedLines(split(lsOutput, "\n"))
       IN /\ Len(Entries) = Cardinality({k \in 1..Len(kept) :
                                           kept[k] \notin {<<".", "/">>, <<".", ".", "/">>}})
          /\ \A i \in 1..Len(Entries) :
                /\ ~(Entries[i].isDirectory /\ Entries[i].name \in {<<".">>, <<".", ".">>})
                /\ \E k \in 1..Len(kept) :
                      /\ Entries[i].isDirectory = endsWith(kept[k], <<"/">>)
                      /\ kept[k] = Entries[i].name
                                   \o (IF Entries[i].isDirectory THEN <<"/">> ELSE <<>>)
          /\ \A i, j \in 1..Len(Entries) :
                i < j => /\ Entries[j].isDirectory => Entries[i].isDirectory
                         /\ Entries[i].isDirectory = Entries[j].isDirectory
                            => localeCompare(Entries[i].name, Entries[j].name) <= 0

\* the number of occurrences of the character ch in s
CountOf(s, ch) == Cardinality({i \in 1..Len(s) : s[i] = ch})

\* the segments of the URL the path of the file stands for
UrlSegments(file) ==
    IF StripExtension(file[Len(file)]) = <<"i", "n", "d", "e", "x">>
    THEN Len(file) - 1 ELSE Len(file)

\* C13: the route table holds exactly one descriptor per route file, none missing
\* and none twice, whatever the nesting; the URL of a/[id]/b/index is /a/:id/b:
\* the extension is stripped, a trailing index is dropped and the root index maps
\* to "/".
C13_OneDescriptorPerFile ==
    startup # "init"
    => /\ Len(routes) = Cardinality(routeFiles)
       /\ \A f \in routeFiles :
             Cardinality({i \in 1..Len(routes) : routes[i].file = f}) = 1
       /\ \A i \in 1..Len(routes) :
             LET file == routes[i].file
                 url == routes[i].url
             IN /\ file \in routeFiles
                /\ file = <<<<"a">>, IdDir, <<"b">>, IndexTs>>
                   => url = <<"/", "a", "/", ":", "i", "d", "/", "b">>
                /\ file = <<IndexTs>> <=> url = <<"/">>
                /\ startsWith(url, <<"/">>)
                /\ UrlSegments(file) > 0 => CountOf(url, "/") = UrlSegments(file)
                /\ ~endsWith(url, <<".", "t", "s">>) /\ ~endsWith(url, <<".", "j", "s">>)
                /\ ~endsWith(url, <<".", "t", "s", "x">>)

\* C13 witness: a table built from three files in nested directories, one of
\* them a/[id]/b/index.ts, the root index among them.
C13_Witness ==
    /\ startup = "built"
    /\ Len(routes) = 3
    /\ routeFiles = {<<IndexTs>>, <<<<"a">>, IdDir, <<"b">>, IndexTs>>,
                     <<<<"a">>, NumberDir, <<"x", ".", "t", "s">>>>}
    /\ \E i \in 1..3 : routes[i].url = <<"/", "a", "/", ":", "i", "d", "/", "b">>

\* the segments of the path of the file that are wrapped in brackets
Bracketed(file) ==
    SelectSeq([i \in 1..Len(file) |-> StripExtension(file[i])],
              LAMBDA p : startsWith(p, <<"[">>) /\ endsWith(p, <<"]">>))

\* C14: for every bracketed segment of the path, a directory name or the name of
\* the file itself, the descriptor holds a parameter whose name is the text before
\* ":" and whose type is the text after it (string when absent), and the URL holds
\* ":name" in its place and no bracket.
C14_BracketsBecomeParams ==
    \A i \in 1..Len(routes) :
        LET segs == Bracketed(routes[i].file)
        IN \A k \in 1..Len(segs) :
              LET inner == SubSeq(segs[k], 2, Len(segs[k]) - 1)
                  parts == split(inner, ":")
              IN /\ \E j \in 1..Len(routes[i].params) :
                       /\ routes[i].params[j].name = parts[1]
                       /\ routes[i].params[j].type =
                             IF Len(parts) > 1 THEN parts[2]
                             ELSE <<"s", "t", "r", "i", "n", "g">>
                 /\ includes(routes[i].url, <<":">> \o parts[1])
                 /\ ~includes(routes[i].url, <<"[">>)
                 /\ ~includes(routes[i].url, <<"]">>)

\* a segment of the path opens a bracket that it does not close
Malformed(file) ==
    \E k \in 1..Len(file) : includes(file[k], <<"[">>) /\ ~includes(file[k], <<"]">>)

\* C15: when a route file has a malformed parameter pattern in its path, the
\* startup fails: no route table is produced and no route is registered.
C15_MalformedPatternIsFatal ==
    (\E f \in routeFiles : Malformed(f))
    => (routes = <<>> /\ registered = {} /\ startup # "listening")

C18_StoreKeepsMostRecent ==
    \A c \in ContainerIds :
        /\ Len(store[c]) <= LOG_LIMIT
        /\ Len(store[c]) = IF appended[c] < LOG_LIMIT THEN appended[c] ELSE LOG_LIMIT
        /\ \A i \in 1..Len(store[c]) : store[c][i].seq = appended[c] - i + 1

\* C18 witness: more lines than the capacity were appended to c1 and the oldest
\* line of its list is the third one appended.
C18_Witness ==
    /\ appended["c1"] = LOG_LIMIT + 2
    /\ Len(store["c1"]) = LOG_LIMIT
    /\ store["c1"][LOG_LIMIT].seq = 3
    /\ appended["c2"] = 1

\* C19: GET /containers/:id/logs returns the buffered lines most recent first: of
\* any two lines of the response, the one appended later comes earlier.
C19_LogsMostRecentFirst ==
    logsReply.id # "none"
    => \A i, j \in 1..Len(logsReply.logs) :
          i < j => logsReply.logs[i].seq > logsReply.logs[j].seq

\* C17: once a subscriber has disconnected and the log stream of its subscription
\* has been opened, no listener of the subscription is attached to the stream.
C17_NoListenerAfterDisconnect ==
    \A k \in Sockets :
        (~sockets[k].connected /\ sockets[k].subscription \in {"attached", "ended"})
        => sockets[k].listeners = {}

\* the fields the issues of a rejected body are about
OffendingFields(body) ==
    {createServerSchema(body)[i].path : i \in 1..Len(createServerSchema(body))}

\* C20: POST /containers with a body the schema rejects is answered 400 with a
\* details array that names every offending field, and no image pull and no
\* container-create call is issued for the request.
C20_InvalidBodyIsRejectedBeforeEngine ==
    (pc = "done" /\ request.route = "create" /\ createServerSchema(request.body) # <<>>)
    => /\ FailedWith(400)
       /\ "details" \in DOMAIN replies[1].body
       /\ replies[1].body.details.t = "array"
       /\ \A field \in OffendingFields(request.body) :
             \E i \in 1..Len(replies[1].body.details.l) :
                replies[1].body.details.l[i].path = field
       /\ engineCalls = <<>>

\* C20 witness: a body whose name has two characters was answered 400, the
\* details naming the field name, with no engine call.
C20_Witness ==
    /\ pc = "done"
    /\ request.route = "create"
    /\ request.body.t = "object"
    /\ request.body.props.name = JString(<<"a", "b">>)
    /\ FailedWith(400)
    /\ \E i \in 1..Len(replies[1].body.details.l) :
          replies[1].body.details.l[i].path = <<"name">>
    /\ engineCalls = <<>>

\* the reference pipeline: remove ANSI escape sequences, then the characters
\* outside printable ASCII other than newline, then trim
ReferencePipeline(raw) == trim(StripNonPrintable(StripAnsi(raw)))

\* the name a line of a listing stands for
NameOfLine(line) ==
    IF endsWith(line, <<"/">>) THEN SubSeq(line, 1, Len(line) - 1) ELSE line

\* C23: the text every adapter operation returns is the reference pipeline
\* applied to the raw output (for a listing: to each of its lines), so that it
\* has no leading or trailing whitespace and no fragment of an escape sequence.
C23_MatchesReferencePipeline ==
    \A i \in 1..Len(execLog) :
        /\ (execLog[i].op \in {"read", "command"} /\ execLog[i].kind = "return")
           => execLog[i].val = Text(ReferencePipeline(execLog[i].stream.output))
        /\ (execLog[i].op = "list" /\ execLog[i].kind = "return")
           => \A j \in 1..Len(execLog[i].val.l) :
                 \E k \in 1..Len(split(execLog[i].stream.output, "\n")) :
                    execLog[i].val.l[j].name =
                       NameOfLine(ReferencePipeline(split(execLog[i].stream.output,
                                                          "\n")[k]))

\* C24: when a handler raises a typed error with a details payload d, the reply
\* has a details field equal to d, also when d is an object with a key named
\* details next to other keys.
C24_DetailsPassedThrough ==
    (pc = "done" /\ outcome.kind = "throw" /\ outcome.val.cls = "HttpError"
        /\ outcome.val.details.t \notin {"undefined", "null"})
    => /\ Len(replies) = 1
       /\ "details" \in DOMAIN replies[1].body
       /\ replies[1].body.details = outcome.val.details

\* the status query of the request reported the container as running: inspect
\* and stats both resolved and State.Running was true
StatusReportsRunning ==
    /\ Len(engineCalls) >= 2
    /\ engineCalls[1].call = "inspect" /\ engineCalls[1].ok /\ engineCalls[1].running
    /\ engineCalls[2].call = "stats" /\ engineCalls[2].ok

\* C30: in DELETE /containers/:id the remove call is the last engine call and
\* comes after the status query (inspect, and stats when inspect resolved); when
\* the status reports running, a stop call is issued after the query and remove
\* follows only a stop that resolved; after a stop that failed no remove is issued.
C30_StopBeforeRemove ==
    (pc = "done" /\ request.route = "remove")
    => /\ \A i \in 1..Len(engineCalls) :
             engineCalls[i].call = "remove"
             => /\ i = Len(engineCalls)
                /\ i > 1
                /\ engineCalls[1].call = "inspect"
                /\ engineCalls[1].ok => (i > 2 /\ engineCalls[2].call = "stats")
       /\ StatusReportsRunning
          => /\ Len(engineCalls) >= 3
             /\ engineCalls[3].call = "stop"
             /\ \A i \in 1..Len(engineCalls) :
                   engineCalls[i].call = "remove" => (i = 4 /\ engineCalls[3].ok)
       /\ (\E i \in 1..Len(engineCalls) :
              engineCalls[i].call = "stop" /\ ~engineCalls[i].ok)
          => \A i \in 1..Len(engineCalls) : engineCalls[i].call # "remove"

\* C30 witness: a running container was stopped and then removed
C30_Witness ==
    /\ pc = "done"
    /\ request.route = "remove"
    /\ StatusReportsRunning
    /\ Len(engineCalls) = 4
    /\ engineCalls[3].call = "stop" /\ engineCalls[3].ok
    /\ engineCalls[4].call = "remove"

\* C29: for every request that reached its handler, reply.send was invoked
\* exactly once, whatever the handler returned or threw.
C29_ExactlyOneReply ==
    (pc = "done" /\ handlerRan) => Len(replies) = 1

\* C27: on each file route a request without the path query parameter reaches the
\* adapter with the path "/data/" and does not fail before it.
C27_MissingPathDefaultsToData ==
    (pc = "done" /\ request.route \in FileRoutes /\ request.query.t = "undefined")
    => /\ execLog # <<>>
       /\ execLog[1].arg = DataPrefix

\* C25: in POST /containers, whenever the image pull was issued the
\* create-container call is issued after it, whether the pull failed or not, and
\* a create-container call that failed is answered with an error reply (status
\* 400 or above, success false), never with a success.
C25_PullFailureSwallowedCreateFailurePropagates ==
    (pc = "done" /\ request.route = "create" /\ engineCalls # <<>>)
    => /\ Len(engineCalls) = 2
       /\ engineCalls[1].call = "pull"
       /\ engineCalls[2].call = "createContainer"
       /\ ~engineCalls[2].ok
          => /\ Len(replies) = 1
             /\ replies[1].status >= 400
             /\ replies[1].body.success = Bool(FALSE)
       /\ engineCalls[2].ok
          => /\ Len(replies) = 1
             /\ replies[1].status = 200
             /\ replies[1].body.success = Bool(TRUE)

\* C25 witness: the pull was rejected, the container was created all the same and
\* the request succeeded
C25_Witness ==
    /\ pc = "done"
    /\ request.route = "create"
    /\ Len(engineCalls) = 2
    /\ engineCalls[1].call = "pull" /\ ~engineCalls[1].ok
    /\ engineCalls[2].call = "createContainer" /\ engineCalls[2].ok
    /\ replies[1].status = 200

RECURSIVE FromBracket(_)
\* the text from its first "[" on, the whole text when it has none
FromBracket(text) ==
    IF \A i \in 1..Len(text) : text[i] # "[" THEN text
    ELSE IF Head(text) = "[" THEN text ELSE FromBracket(Tail(text))

\* the line the relay is to forward for a chunk: the chunk's line without its
\* ANSI sequences and without what precedes its first "["
CleanedLine(chunk) == FromBracket(StripAnsi(trim(chunk)))

RECURSIVE CleanedLines26(_)
\* the lines to forward for a sequence of chunks, blank chunks skipped
CleanedLines26(cs) ==
    IF cs = <<>> THEN <<>>
    ELSE (IF trim(Head(cs)) = <<>> THEN <<>> ELSE <<CleanedLine(Head(cs))>>)
         \o CleanedLines26(Tail(cs))

\* the chunks the log stream of socket k delivered to its "data" listener
DeliveredTo(k) ==
    IF sockets[k].first = 0 THEN <<>>
    ELSE SubSeq(produced, sockets[k].first, sockets[k].next - 1)

\* the texts of the stored log of c1, oldest first
StoredTexts ==
    [i \in 1..Len(store["c1"]) |-> store["c1"][Len(store["c1"]) - i + 1].text]

RECURSIVE IsInterleaving(_, _, _)
\* s is a and b merged, each in its own order
IsInterleaving(s, a, b) ==
    IF s = <<>> THEN a = <<>> /\ b = <<>>
    ELSE \/ a # <<>> /\ Head(a) = Head(s) /\ IsInterleaving(Tail(s), Tail(a), b)
         \/ b # <<>> /\ Head(b) = Head(s) /\ IsInterleaving(Tail(s), a, Tail(b))

\* C26: what a socket was sent is, in the order of delivery, the cleaned line of
\* every non-blank chunk its log stream delivered, followed by the stream-end
\* sentinel once the stream has ended and by nothing else; and the store holds
\* the very same lines, those of each stream in the order of its delivery.
C26_RelayForwardsAndStoresInOrder ==
    /\ \A k \in Sockets :
          sockets[k].subscription \in {"attached", "ended"}
          => emitted[k] = CleanedLines26(DeliveredTo(k))
                          \o (IF sockets[k].subscription = "ended"
                              THEN <<StreamEnded>> ELSE <<>>)
    /\ IsInterleaving(StoredTexts, CleanedLines26(DeliveredTo("s1")),
                      CleanedLines26(DeliveredTo("s2")))

\* C26 witness: a stream delivered a chunk with an ANSI sequence and a prefix, then
\* a plain one, and ended; the socket was sent the two cleaned lines and then the
\* sentinel
C26_Witness ==
    \E k \in Sockets :
        /\ sockets[k].subscription = "ended"
        /\ emitted[k] = <<<<"[", "b", "]", "\n", "[", "c", "]">>, <<"[", "a", "]">>,
                          StreamEnded>>
        /\ Len(store["c1"]) = 2

\* the number of non-blank chunks among cs
RECURSIVE NonBlank(_)
NonBlank(cs) ==
    IF cs = <<>> THEN 0
    ELSE (IF trim(Head(cs)) = <<>> THEN 0 ELSE 1) + NonBlank(Tail(cs))

\* C28: the stored log of the container holds each line the container wrote at
\* most once, however many sockets are subscribed to it: it never holds more
\* lines than the container wrote, and no chunk was appended by two streams.
C28_EachLineStoredOnce ==
    /\ Len(store["c1"]) <= NonBlank(produced)
    /\ \A i \in 1..Len(produced) :
          trim(produced[i]) # <<>>
          => Cardinality({k \in Sockets : sockets[k].first > 0 /\ sockets[k].first <= i
                                          /\ i < sockets[k].next}) <= 1

\* C21: a read of the path last written, with nothing done to the path in
\* between, returns the data written whenever the data is printable ASCII.
C21_WriteThenReadReturnsData ==
    (readBack.kind # "none" /\ readBack.path = lastWrite.path
        /\ \A i \in 1..Len(lastWrite.data) : lastWrite.data[i] \in Printable)
    => (readBack.kind = "return" /\ readBack.val = Text(lastWrite.data))

\* C22: a GET request to /api/v1/servers is answered with status 200 and a body
\* whose status is "success" and whose data is an array.
C22_ListAnsweredWithSuccess ==
    (apiPc = "done" /\ apiRequest.method = "GET" /\ apiRequest.path = "/")
    => (apiReply.status = 200 /\ apiReply.stat = "success" /\ apiReply.data = "array")

============================================================================
